---- MODULE Spec2Model ----
(***************************************************************************)
(* x402 facilitator: the settlement coordinator (Settler.settle), the      *)
(* settlement stores (JSON file store, SQLite store), the relayer selector *)
(* (RelayerManager), the simulation-result interpreter and the payload     *)
(* verifier (Verifier.verify).                                             *)
(*                                                                         *)
(* Every `await` on the store or on the ledger gateway is a point where    *)
(* another invocation may run; one action is the code between two such     *)
(* points.  The JSON store does its work synchronously inside the call, so *)
(* there the store effect belongs to the step that makes the call; a       *)
(* SQLite statement is executed later, as a step of its own.               *)
(***************************************************************************)
EXTENDS Integers, Sequences, FiniteSets, TLC

VARIABLES
    cfg,        \* deployment: store kind, relayer manager, SKIP_SIMULATION
    store,      \* settlement records, keyed by settlement identifier
    calls,      \* per slot: the Settler.settle invocation running there
    ledger,     \* the ledger gateway: broadcasts issued / accepted, simulations
    ncalls,     \* settle invocations started so far
    vcall,      \* the Verifier.verify invocation (VerifySpec)
    app         \* the application of a pure function under observation

vars == <<cfg, store, calls, ledger, ncalls, vcall, app>>

(***************************************************************************)
(* Bounds                                                                  *)
(***************************************************************************)
MaxConcurrent == 2      \* settle invocations in flight at the same time
MaxCalls == 2           \* settle invocations overall (retries included)
MaxNow == 2             \* clock values 0..MaxNow seen by verify
MaxFields == 2          \* populated leaf properties of a simulation response
MaxWallets == 2         \* key files in the wallets directory
MaxOps == 4             \* store operations applied in a row
MaxPolls == 2           \* GET /events requests overall

Slots == 1..MaxConcurrent

(***************************************************************************)
(* Values                                                                  *)
(***************************************************************************)
None == "none"          \* an absent string field (undefined)
Null == <<>>            \* an absent object (null / undefined)

\* Bech32 addresses of the model and the last byte of their public keys.
Alice == "erd1alice"
Bob == "erd1bob"
Carol == "erd1carol"
RelayerA == "erd1relayerA"
RelayerB == "erd1relayerB"
RelayerS == "erd1relayerS"

PubKeyLastByte ==
    (Alice :> 4) @@ (Bob :> 2) @@ (Carol :> 7) @@
    (RelayerA :> 8) @@ (RelayerB :> 13) @@ (RelayerS :> 255)

\* Signatures (hex strings) a caller may present.
Signatures == {"ab", "cd"}

(***************************************************************************)
(* RelayerManager                                                          *)
(***************************************************************************)
\* a & b on non-negative integers.
RECURSIVE BitAnd(_, _)
BitAnd(a, b) ==
    IF a = 0 \/ b = 0 THEN 0
    ELSE (a % 2) * (b % 2) + 2 * BitAnd(a \div 2, b \div 2)

\* A 32-byte public key, given by its first and its last byte.
PublicKey(first, last) ==
    [i \in 1..32 |-> IF i = 32 THEN last ELSE IF i = 1 THEN first ELSE 0]

\* address.getPublicKey() of the named addresses.
getPublicKey(address) == PublicKey(0, PubKeyLastByte[address])

\* The body of getShard without the fold of the value 3.
ShardUnfolded(pubKey) == BitAnd(pubKey[32], 3)

\* The body of getShard: pubKey[31] & 0x03, replaced by pubKey[31] & 0x01
\* when that is above 2 (sequences count from 1).
Shard(pubKey) ==
    LET lastByte == pubKey[32]
        shard == BitAnd(lastByte, 3)
    IN  IF shard > 2 THEN BitAnd(lastByte, 1) ELSE shard

getShard(address) == Shard(getPublicKey(address))

\* loadWallets: every key file registers its signer under the signer's shard;
\* a later file of the same shard replaces the earlier one.
RECURSIVE loadWallets(_)
loadWallets(files) ==
    IF files = <<>> THEN <<>>
    ELSE LET signer == files[Len(files)]
             before == loadWallets(SubSeq(files, 1, Len(files) - 1))
         IN  (getShard(signer) :> signer) @@ before

\* constructor(walletsDir, singlePemPath); a signer is named by its address.
NewRelayerManager(walletFiles, singlePem) ==
    [signers |-> loadWallets(walletFiles), singleSigner |-> singlePem]

\* getSignerForUser: [ok, signer]; ok = FALSE is the thrown
\* 'No relayer configured for user ...'.
SignerOfShard(rm, shard) ==
    IF DOMAIN rm.signers # {} /\ shard \in DOMAIN rm.signers
    THEN [ok |-> TRUE, signer |-> rm.signers[shard]]
    ELSE IF rm.singleSigner # None
    THEN [ok |-> TRUE, signer |-> rm.singleSigner]
    ELSE [ok |-> FALSE, signer |-> None]

getSignerForUser(rm, user) == SignerOfShard(rm, getShard(user))

\* The relayer managers a deployment may be started with (Null: none passed).
RelayerSetups ==
    { Null,
      NewRelayerManager(<<>>, None),
      NewRelayerManager(<<RelayerA>>, None) }

Configs ==
    [storage : {"json", "sqlite"},
     relayerManager : RelayerSetups,
     SKIP_SIMULATION : {None, "true", "1"}]

\* process.env.SKIP_SIMULATION as sendRelayedV3 and as Verifier.simulate read it.
SettlerSkipsOnAnyValue(env) == env # None
SettlerSkipsSimulation(env) == env = "true"
VerifierSkipsAlways(env) == TRUE
VerifierSkipsSimulation(env) == env \in {"true", "1"}

(***************************************************************************)
(* Settlement stores                                                       *)
(***************************************************************************)
NoHash == <<>>                       \* txHash undefined
TxHash(n) == <<"tx", n>>             \* the hash of the n-th accepted broadcast

\* get(id): the record, or null.
StorageGet(st, id) == IF id \in DOMAIN st THEN st[id] ELSE Null

\* JsonSettlementStorage.save: records.set(id, record), never throws.
JsonSave(st, record) ==
    [ok |-> TRUE,
     store |-> [i \in DOMAIN st \cup {record.id} |->
                    IF i = record.id THEN record ELSE st[i]]]

\* SqliteSettlementStorage.save: INSERT into a table whose id is the primary
\* key; a second row with the same id is rejected and the statement throws.
SqliteSave(st, record) ==
    IF record.id \in DOMAIN st
    THEN [ok |-> FALSE, store |-> st]
    ELSE [ok |-> TRUE, store |-> (record.id :> record) @@ st]

StorageSave(kind, st, record) ==
    IF kind = "json" THEN JsonSave(st, record) ELSE SqliteSave(st, record)

\* updateStatus(id, status, txHash?): sets status and txHash of the record
\* if it exists (JSON: if (record); SQLite: UPDATE ... WHERE id = ?).
StorageUpdateStatus(st, id, status, txHash) ==
    IF id \in DOMAIN st
    THEN [st EXCEPT ![id] = [@ EXCEPT !.status = status, !.txHash = txHash]]
    ELSE st

(***************************************************************************)
(* Simulation-result interpreter.  A response is a JSON object: a function *)
(* from property names to strings or objects; JsNull is a null response.   *)
(***************************************************************************)
JsNull == [isNull |-> "true"]

\* o?.k for an object-valued and for a string-valued property.
Obj(o, k) == IF k \in DOMAIN o THEN o[k] ELSE Null
Str(o, k) == IF k \in DOMAIN o THEN o[k] ELSE None
TruthyNonNull(s) == s # None
Truthy(s) == s # None /\ s # ""

OrElseNullish(a, b) == IF a # None THEN a ELSE b

\* a || b on strings.
OrElse(a, b) == IF Truthy(a) THEN a ELSE b

parseSimulationResult(result) ==
    IF result = JsNull
    THEN [success |-> FALSE, errorMessage |-> "Empty simulation result"]
    ELSE
    LET statusFromStatus == Str(Obj(result, "status"), "status")
        statusFromRaw == Str(Obj(result, "raw"), "status")
        execution == IF "execution" \in DOMAIN result
                     THEN result["execution"]
                     ELSE Obj(Obj(result, "result"), "execution")
        rawReceiverShard == Str(Obj(Obj(result, "raw"), "receiverShard"), "status")
        rawSenderShard == Str(Obj(Obj(result, "raw"), "senderShard"), "status")
        statusFromResult == Str(Obj(result, "result"), "status")
        resultReceiverShard == Str(Obj(Obj(result, "result"), "receiverShard"), "status")
        resultSenderShard == Str(Obj(Obj(result, "result"), "senderShard"), "status")
        ok == [success |-> TRUE, errorMessage |-> ""]
    IN  IF statusFromStatus = "success" THEN ok
        ELSE IF statusFromRaw = "success" THEN ok
        ELSE IF Str(execution, "result") = "success" THEN ok
        ELSE IF /\ rawReceiverShard = "success"
                /\ (~Truthy(rawSenderShard) \/ rawSenderShard = "success") THEN ok
        ELSE IF statusFromResult = "success" THEN ok
        ELSE IF /\ resultReceiverShard = "success"
                /\ (~Truthy(resultSenderShard) \/ resultSenderShard = "success") THEN ok
        ELSE [success |-> FALSE,
              errorMessage |->
                OrElse(Str(execution, "message"),
                OrElse(Str(result, "error"),
                OrElse(Str(Obj(result, "raw"), "error"),
                OrElse(Str(Obj(result, "result"), "error"),
                OrElse(statusFromStatus,
                OrElse(statusFromRaw, "Unknown error"))))))]

\* What the ledger gateway answers to a simulation in the settlement model:
\* a response object, or "throw" (the call rejects, e.g. a timeout).
SimSuccess == [execution |-> [result |-> "success"]]
SimFail == [execution |-> [result |-> "fail", message |-> "invalid nonce"]]
SimAnswers == {SimSuccess, SimFail, [throw |-> "timeout"]}

(***************************************************************************)
(* Payloads and transactions                                               *)
(***************************************************************************)
NoTime == -1            \* validAfter / validBefore undefined

\* BigInt(decimal string)
BigInt == ("0" :> 0) @@ ("999999" :> 999999) @@ ("1000000" :> 1000000) @@
          ("5000" :> 5000)

\* Buffer.from(hex, 'hex'): the bytes of a hex string (either letter case).
HexToBytes == ("ab" :> <<171>>) @@ ("AB" :> <<171>>) @@ ("cd" :> <<205>>) @@
              ("ef" :> <<239>>) @@ ("12" :> <<18>>) @@ ("34" :> <<52>>) @@
              ("56" :> <<86>>) @@ ("78" :> <<120>>)

\* Buffer.from(hex, 'hex').toString(): the text a hex string encodes.
HexToText == ("6a6f6231" :> "job1") @@ ("544553542d61626364" :> "TEST-abcd") @@
             ("544553542d41424344" :> "TEST-ABCD")

BasePayload ==
    [nonce |-> 1, value |-> "1000000", receiver |-> Bob, sender |-> Alice,
     gasPrice |-> 1000000, gasLimit |-> 50000, data |-> Null, chainID |-> "D",
     version |-> 1, options |-> 0, signature |-> "ab", relayer |-> None,
     validAfter |-> NoTime, validBefore |-> NoTime]

\* The payloads handed to Settler.settle.
SettlePayloads ==
    { [BasePayload EXCEPT !.signature = s, !.relayer = r, !.version = v] :
        s \in Signatures, r \in {None, RelayerA, RelayerB}, v \in {1, 2} }

\* new Transaction({...}) of sendDirect: neither options nor relayer is passed.
DirectTx(payload) ==
    [nonce |-> payload.nonce, value |-> BigInt[payload.value],
     receiver |-> payload.receiver, sender |-> payload.sender,
     gasPrice |-> payload.gasPrice, gasLimit |-> payload.gasLimit,
     data |-> payload.data, chainID |-> payload.chainID,
     version |-> payload.version, options |-> 0, relayer |-> None,
     signature |-> HexToBytes[payload.signature], relayerSignature |-> None]

\* new Transaction({...}) of sendRelayedV3 plus tx.relayerSignature =
\* relayerSigner.sign(bytes); the co-signature is named by its signer.
RelayedTxUnsigned(payload, relayerSigner) ==
    [nonce |-> payload.nonce, value |-> BigInt[payload.value],
     receiver |-> payload.receiver, sender |-> payload.sender,
     gasPrice |-> payload.gasPrice, gasLimit |-> payload.gasLimit,
     data |-> payload.data, chainID |-> payload.chainID,
     version |-> payload.version, options |-> payload.options,
     relayer |-> payload.relayer,
     signature |-> <<>>,
     relayerSignature |-> relayerSigner]
RelayedTx(payload, relayerSigner) ==
    [nonce |-> payload.nonce, value |-> BigInt[payload.value],
     receiver |-> payload.receiver, sender |-> payload.sender,
     gasPrice |-> payload.gasPrice, gasLimit |-> payload.gasLimit,
     data |-> payload.data, chainID |-> payload.chainID,
     version |-> payload.version, options |-> payload.options,
     relayer |-> payload.relayer,
     signature |-> HexToBytes[payload.signature],
     relayerSignature |-> relayerSigner]

\* calculateId: sha256 of the signature string, hex encoded.
calculateId(payload) == <<"sha256", payload.signature>>

Ids == { calculateId(pl) : pl \in SettlePayloads }

\* extractJobId(data): data is the sequence of its '@'-separated parts.
extractJobId(data) ==
    IF data = Null THEN None
    ELSE IF Len(data) >= 2 /\ data[1] \in {"init_job_with_payment", "init_job"}
    THEN HexToText[data[2]]
    ELSE None

\* The record settle saves before it broadcasts.
PendingRecord(payload) ==
    [id |-> calculateId(payload), signature |-> payload.signature,
     payer |-> payload.sender, status |-> "pending", txHash |-> NoHash,
     validBefore |-> payload.validBefore, amount |-> payload.value,
     token |-> "EGLD", jobId |-> extractJobId(payload.data), isRead |-> FALSE]

(***************************************************************************)
(* Settler.settle                                                          *)
(*                                                                         *)
(* An error message is the sequence of the pieces it is concatenated from. *)
(***************************************************************************)
NoError == <<>>
NoResult == <<>>
AlreadyInProgress == <<"Settlement already in progress">>
SaveRejected == <<"SQLITE_CONSTRAINT: UNIQUE constraint failed: settlements.id">>
SettlementFailed(message) == <<"Settlement failed: ">> \o message

IdleCall ==
    [pc |-> "idle", payload |-> Null, id |-> Null, existing |-> Null,
     path |-> "none", tx |-> Null, txHash |-> NoHash,
     error |-> NoError, result |-> NoResult,
     saves |-> 0, updates |-> 0, sims |-> 0, bcasts |-> 0, answer |-> Null]

\* RelayedPrecheck without the test of the transaction version.
RelayedPrecheckAnyVersion(rm, payload) ==
    IF rm = Null THEN <<"Relayer manager not configured">>
    ELSE IF ~Truthy(payload.relayer)
    THEN <<"Relayed V3 requires payload.relayer to be set by the sender before signing.">>
    ELSE IF ~getSignerForUser(rm, payload.sender).ok
    THEN <<"No relayer configured for user ", payload.sender>>
    ELSE IF payload.relayer # getSignerForUser(rm, payload.sender).signer
    THEN <<"Invalid relayer address. Expected ",
           getSignerForUser(rm, payload.sender).signer, " for sender's shard.">>
    ELSE NoError

\* RelayedPrecheck without the comparison of the two relayer addresses.
RelayedPrecheckNoCompare(rm, payload) ==
    IF rm = Null THEN <<"Relayer manager not configured">>
    ELSE IF ~Truthy(payload.relayer)
    THEN <<"Relayed V3 requires payload.relayer to be set by the sender before signing.">>
    ELSE IF payload.version < 2
    THEN <<"Relayed V3 requires transaction version >= 2.">>
    ELSE IF ~getSignerForUser(rm, payload.sender).ok
    THEN <<"No relayer configured for user ", payload.sender>>
    ELSE NoError

\* sendRelayedV3, up to the comparison of the declared fee-payer with the
\* address of the signer resolved for the sender: the error thrown, or
\* NoError when every check passes.
RelayedPrecheck(rm, payload) ==
    IF rm = Null THEN <<"Relayer manager not configured">>
    ELSE IF ~Truthy(payload.relayer)
    THEN <<"Relayed V3 requires payload.relayer to be set by the sender before signing.">>
    ELSE IF payload.version < 2
    THEN <<"Relayed V3 requires transaction version >= 2.">>
    ELSE IF ~getSignerForUser(rm, payload.sender).ok
    THEN <<"No relayer configured for user ", payload.sender>>
    ELSE IF payload.relayer # getSignerForUser(rm, payload.sender).signer
    THEN <<"Invalid relayer address. Expected ",
           getSignerForUser(rm, payload.sender).signer, " for sender's shard.">>
    ELSE NoError

\* UseRelayed as in the earlier Settler: relayed whenever a manager is configured.
UseRelayedManagerOnly(rm, payload) == rm # Null

\* The branch of settle: relayed iff a relayer manager is configured and the
\* payload names a relayer.
UseRelayed(rm, payload) == rm # Null /\ Truthy(payload.relayer)

\* The idempotency check on the record read: return the stored hash, throw
\* 'Settlement already in progress', or go on to save.
IdempotencyCheckNoCompleted(existing) ==
    IF existing # Null /\ existing.status = "pending" THEN "throw" ELSE "save"

IdempotencyCheckNoPending(existing) ==
    IF existing # Null /\ existing.status = "completed" THEN "return" ELSE "save"

IdempotencyCheck(existing) ==
    IF existing # Null /\ existing.status = "completed" THEN "return"
    ELSE IF existing # Null /\ existing.status = "pending" THEN "throw"
    ELSE "save"

\* await storage.save(...): settle goes on only when the save has resolved.
SaveResolvedAlways(saved) == TRUE

SaveResolved(saved) == saved.ok

\* The store write of the catch block.
MarkFailedNoWrite(st, id) == st

\* MarkFailed that sets the status and leaves the stored hash as it is.
MarkFailedKeepsHash(st, id) ==
    IF id \in DOMAIN st THEN [st EXCEPT ![id].status = "failed"] ELSE st

MarkFailed(st, id) == StorageUpdateStatus(st, id, "failed", NoHash)

\* The store write after a successful broadcast.
MarkCompletedEvery(st, id, txHash) ==
    [i \in DOMAIN st |-> [st[i] EXCEPT !.status = "completed", !.txHash = txHash]]
MarkCompleted(st, id, txHash) == StorageUpdateStatus(st, id, "completed", txHash)

\* catch (error): updateStatus(id, 'failed'), then throw 'Settlement failed: ...'.
\* c is the invocation as the step leaves it.
Catch(p, c, message) ==
    IF cfg.storage = "json"
    THEN /\ store' = MarkFailed(store, c.id)
         /\ calls' = [calls EXCEPT ![p] =
                [c EXCEPT !.pc = "done", !.updates = @ + 1,
                          !.error = SettlementFailed(message)]]
    ELSE /\ store' = store
         /\ calls' = [calls EXCEPT ![p] =
                [c EXCEPT !.pc = "caught", !.error = message]]

\* provider.sendTransaction(tx) is called: the broadcast is on its way.
IssueBroadcast(p, c, tx) ==
    /\ calls' = [calls EXCEPT ![p] =
            [c EXCEPT !.pc = "sending", !.tx = tx, !.bcasts = @ + 1]]
    /\ ledger' = [ledger EXCEPT !.issued[c.id] = @ + 1]
    /\ store' = store

\* relayerSigner.sign(bytesToSign) rejects and the transaction goes out
\* without the co-signature.
CosignRejectsSwallowed(p, c, tx) ==
    IssueBroadcast(p, c, [tx EXCEPT !.relayerSignature = None])
\* relayerSigner.sign(bytesToSign) rejects: the rejection leaves sendRelayedV3
\* and reaches the catch block of settle.
CosignRejects(p, c, tx) ==
    /\ Catch(p, c, <<"signing failed">>)
    /\ ledger' = ledger

\* settle is called in a free slot (idle, or holding the outcome of a call that
\* has returned): the identifier is computed and storage.get(id) is read.
SettleStart(p, payload) ==
    /\ calls[p].pc \in {"idle", "done"}
    \* slots are interchangeable: the lowest free one takes the invocation
    /\ \A q \in Slots : q < p => calls[q].pc \notin {"idle", "done"}
    /\ ncalls < MaxCalls
    /\ ncalls' = ncalls + 1
    /\ calls' = [calls EXCEPT ![p] =
            [IdleCall EXCEPT !.pc = "got", !.payload = payload,
                             !.id = calculateId(payload),
                             !.existing = StorageGet(store, calculateId(payload))]]
    /\ UNCHANGED <<cfg, store, ledger, vcall, app>>

\* The idempotency check on the record read, then the save of the pending record.
SettleCheck(p) ==
    LET c == calls[p]
        saved == StorageSave(cfg.storage, store, PendingRecord(c.payload))
        check == IdempotencyCheck(c.existing)
    IN  /\ c.pc = "got"
        /\ IF check = "return"
           THEN /\ calls' = [calls EXCEPT ![p] =
                       [c EXCEPT !.pc = "done",
                                 !.result = [success |-> TRUE,
                                             txHash |-> c.existing.txHash]]]
                /\ store' = store
           ELSE IF check = "throw"
           THEN /\ calls' = [calls EXCEPT ![p] =
                       [c EXCEPT !.pc = "done", !.error = AlreadyInProgress]]
                /\ store' = store
           ELSE IF SaveResolved(saved)
           THEN /\ calls' = [calls EXCEPT ![p] =
                       [c EXCEPT !.pc = "saved",
                                 !.saves = IF saved.ok THEN 1 ELSE 0]]
                /\ store' = saved.store
           ELSE /\ calls' = [calls EXCEPT ![p] =
                       [c EXCEPT !.pc = "done", !.error = SaveRejected]]
                /\ store' = store
        /\ UNCHANGED <<cfg, ledger, ncalls, vcall, app>>

\* The try block up to its first request to the ledger gateway.
SettleTry(p) ==
    LET c == calls[p]
        rm == cfg.relayerManager
    IN  /\ c.pc = "saved"
        /\ IF UseRelayed(rm, c.payload)
           THEN LET cr == [c EXCEPT !.path = "relayed"]
                    err == RelayedPrecheck(rm, c.payload)
                    tx == RelayedTx(c.payload, getSignerForUser(rm, c.payload.sender).signer)
                IN  IF err # NoError
                    THEN Catch(p, cr, err) /\ ledger' = ledger
                    ELSE \E signed \in BOOLEAN :
                         IF ~signed
                         THEN CosignRejects(p, cr, tx)
                         ELSE IF ~SettlerSkipsSimulation(cfg.SKIP_SIMULATION)
                         THEN /\ calls' = [calls EXCEPT ![p] =
                                    [cr EXCEPT !.pc = "simulating", !.tx = tx,
                                               !.sims = @ + 1]]
                              /\ ledger' = [ledger EXCEPT !.simulated = @ + 1]
                              /\ store' = store
                         ELSE IssueBroadcast(p, cr, tx)
           ELSE IssueBroadcast(p, [c EXCEPT !.path = "direct"], DirectTx(c.payload))
        /\ UNCHANGED <<cfg, ncalls, vcall, app>>

\* The pre-broadcast simulation of the relayed path answers.
SimulateReturn(p) ==
    LET c == calls[p]
    IN  /\ c.pc = "simulating"
        /\ \E answer \in SimAnswers :
              LET ca == [c EXCEPT !.answer = answer]
              IN  IF "throw" \in DOMAIN answer
                  THEN Catch(p, ca, <<answer["throw"]>>) /\ ledger' = ledger
                  ELSE IF ~parseSimulationResult(answer).success
                  THEN /\ Catch(p, ca, <<"On-chain simulation failed: ",
                                         parseSimulationResult(answer).errorMessage>>)
                       /\ ledger' = ledger
                  ELSE IssueBroadcast(p, ca, c.tx)
        /\ UNCHANGED <<cfg, ncalls, vcall, app>>

\* BroadcastReturn that sends a rejected transaction once more before it gives up.
BroadcastReturnRetries(p) ==
    LET c == calls[p]
        txHash == TxHash(ledger.hashes + 1)
    IN  /\ c.pc = "sending"
        /\ \E accepted \in BOOLEAN :
              IF accepted
              THEN /\ ledger' = [ledger EXCEPT !.accepted[c.id] = @ + 1,
                                               !.hashes = @ + 1]
                   /\ IF cfg.storage = "json"
                      THEN /\ store' = MarkCompleted(store, c.id, txHash)
                           /\ calls' = [calls EXCEPT ![p] =
                                  [c EXCEPT !.pc = "done", !.txHash = txHash,
                                            !.updates = @ + 1,
                                            !.result = [success |-> TRUE,
                                                        txHash |-> txHash]]]
                      ELSE /\ store' = store
                           /\ calls' = [calls EXCEPT ![p] =
                                  [c EXCEPT !.pc = "sent", !.txHash = txHash]]
              ELSE IF c.bcasts < 2
              THEN IssueBroadcast(p, c, c.tx)
              ELSE Catch(p, c, <<"network error">>) /\ ledger' = ledger
        /\ UNCHANGED <<cfg, ncalls, vcall, app>>

\* The broadcast answers: a transaction hash, or the call rejects.
BroadcastReturn(p) ==
    LET c == calls[p]
        txHash == TxHash(ledger.hashes + 1)
    IN  /\ c.pc = "sending"
        /\ \E accepted \in BOOLEAN :
              IF accepted
              THEN /\ ledger' = [ledger EXCEPT !.accepted[c.id] = @ + 1,
                                               !.hashes = @ + 1]
                   /\ IF cfg.storage = "json"
                      THEN /\ store' = MarkCompleted(store, c.id, txHash)
                           /\ calls' = [calls EXCEPT ![p] =
                                  [c EXCEPT !.pc = "done", !.txHash = txHash,
                                            !.updates = @ + 1,
                                            !.result = [success |-> TRUE,
                                                        txHash |-> txHash]]]
                      ELSE /\ store' = store
                           /\ calls' = [calls EXCEPT ![p] =
                                  [c EXCEPT !.pc = "sent", !.txHash = txHash]]
              ELSE Catch(p, c, <<"network error">>) /\ ledger' = ledger
        /\ UNCHANGED <<cfg, ncalls, vcall, app>>

\* SQLite: the UPDATE of updateStatus(id, 'completed', txHash) runs; settle returns.
UpdateCompleted(p) ==
    LET c == calls[p]
    IN  /\ c.pc = "sent"
        /\ store' = MarkCompleted(store, c.id, c.txHash)
        /\ calls' = [calls EXCEPT ![p] =
               [c EXCEPT !.pc = "done", !.updates = @ + 1,
                         !.result = [success |-> TRUE, txHash |-> c.txHash]]]
        /\ UNCHANGED <<cfg, ledger, ncalls, vcall, app>>

\* SQLite: the UPDATE of updateStatus(id, 'failed') runs; settle throws.
UpdateFailed(p) ==
    LET c == calls[p]
    IN  /\ c.pc = "caught"
        /\ store' = MarkFailed(store, c.id)
        /\ calls' = [calls EXCEPT ![p] =
               [c EXCEPT !.pc = "done", !.updates = @ + 1,
                         !.error = SettlementFailed(c.error)]]
        /\ UNCHANGED <<cfg, ledger, ncalls, vcall, app>>

\* No pure function has been applied yet.
AppIdle == [op |-> "idle"]

VIdle ==
    [pc |-> "idle", payload |-> Null, requirements |-> Null, resolved |-> Null,
     provider |-> FALSE, relayerManager |-> Null, blockchainService |-> FALSE,
     now |-> NoTime, log |-> <<>>, tx |-> Null, error |-> NoError,
     result |-> NoResult, simRequests |-> 0, priceRequests |-> 0,
     answer |-> Null]

Init ==
    /\ cfg \in Configs
    /\ store = <<>>
    /\ calls = [p \in Slots |-> IdleCall]
    /\ ledger = [issued |-> [i \in Ids |-> 0], accepted |-> [i \in Ids |-> 0],
                 hashes |-> 0, simulated |-> 0]
    /\ ncalls = 0
    /\ vcall = VIdle
    /\ app = AppIdle

Next ==
    \/ \E p \in Slots, payload \in SettlePayloads : SettleStart(p, payload)
    \/ \E p \in Slots : SettleCheck(p)
    \/ \E p \in Slots : SettleTry(p)
    \/ \E p \in Slots : SimulateReturn(p)
    \/ \E p \in Slots : BroadcastReturn(p)
    \/ \E p \in Slots : UpdateCompleted(p)
    \/ \E p \in Slots : UpdateFailed(p)

Spec == Init /\ [][Next]_vars

(***************************************************************************)
(* Verifier.verify                                                         *)
(*                                                                         *)
(* vcall is the one verify invocation under observation: its arguments,    *)
(* the clock value it read, the gates it has run (log), the requests it    *)
(* has sent and its outcome.                                               *)
(***************************************************************************)
\* Address.newFromHex(hex).toBech32()
AddressFromHex == ("626f62" :> Bob) @@ ("6361726f6c" :> Carol)

\* BigInt('0x' + hex)
BigIntFromHex == ("1388" :> 5000) @@ ("0f4240" :> 1000000)

\* parseInt(text, 16)
ParseInt16 == ("01" :> 1) @@ ("00" :> 0)

\* The intents the clients signed, and the signature each one carries.
NativeIntent == [BasePayload EXCEPT !.signature = "ab"]

EsdtIntent ==
    [BasePayload EXCEPT !.signature = "cd", !.value = "0", !.receiver = Alice,
        !.data = <<"MultiESDTNFTTransfer", "6361726f6c", "01",
                   "544553542d61626364", "00", "1388">>]

JobIntent ==
    [BasePayload EXCEPT !.signature = "ef",
        !.data = <<"init_job_with_payment", "6a6f6231", "01">>]

ShortEsdtIntent ==
    [BasePayload EXCEPT !.signature = "12", !.value = "0", !.receiver = Alice,
        !.data = <<"MultiESDTNFTTransfer", "626f62">>]

RelayedIntent == [BasePayload EXCEPT !.signature = "34", !.relayer = RelayerA,
                                     !.version = 2]

\* A token-transfer instruction that also carries a native value.
EsdtValueIntent == [EsdtIntent EXCEPT !.signature = "56", !.value = "1000000"]

\* An instruction whose name only begins with the transfer opcode.
EsdtPrefixIntent ==
    [EsdtIntent EXCEPT !.signature = "78",
                       !.data = [@ EXCEPT ![1] = "MultiESDTNFTTransferX"]]

SignedIntents ==
    {NativeIntent, EsdtIntent, JobIntent, ShortEsdtIntent, RelayedIntent,
     EsdtValueIntent, EsdtPrefixIntent}

\* Payloads changed after signing: another amount, another intent's
\* signature, a fee-payer added; and the signature in upper-case hex.
ChangedIntents ==
    {[NativeIntent EXCEPT !.value = "999999"],
     [NativeIntent EXCEPT !.signature = "cd"],
     [NativeIntent EXCEPT !.relayer = RelayerA],
     [NativeIntent EXCEPT !.signature = "AB"]}

\* new Transaction({...}) of verify, before tx.signature is set.
VerifyTx(payload) ==
    [nonce |-> payload.nonce, value |-> BigInt[payload.value],
     receiver |-> payload.receiver, sender |-> payload.sender,
     gasPrice |-> payload.gasPrice, gasLimit |-> payload.gasLimit,
     data |-> payload.data, chainID |-> payload.chainID,
     version |-> payload.version, options |-> payload.options,
     relayer |-> payload.relayer]

\* TransactionComputer.computeBytesForSigning: every field but the signatures.
computeBytesForSigning(tx) ==
    [f \in DOMAIN tx \ {"signature", "relayerSignature"} |-> tx[f]]

\* What each signature signs: the sender's key over the intent's bytes.
SignedBy ==
    [sig \in { HexToBytes[i.signature] : i \in SignedIntents } |->
        LET i == CHOOSE j \in SignedIntents : HexToBytes[j.signature] = sig
        IN  [signer |-> i.sender,
             message |-> computeBytesForSigning(VerifyTx(i))]]

UserVerifySignerOnly(address, message, signature) ==
    /\ signature \in DOMAIN SignedBy
    /\ SignedBy[signature].signer = address

\* UserVerifier.fromAddress(address).verify(message, signature)
UserVerify(address, message, signature) ==
    /\ signature \in DOMAIN SignedBy
    /\ SignedBy[signature].signer = address
    /\ SignedBy[signature].message = message

\* The payloads handed to verify: the signed intents and the changed ones,
\* each with and without validity bounds.
VerifyPayloads ==
    { [i EXCEPT !.validAfter = va, !.validBefore = vb] :
        i \in SignedIntents \cup ChangedIntents,
        va \in {NoTime, 2}, vb \in {NoTime, 0, 1} }

VerifyRequirements ==
    [payTo : {Bob, Carol}, amount : {None, "1000000", "5000"},
     asset : {"EGLD", "TEST-abcd", "TEST-ABCD"}]

\* blockchainService.getAgentServicePrice(...).toString(), or a rejection.
PriceAnswers == {"5000", "throw"}

\* extractAgentNonce(data); undefined, NaN and 0 are all falsy at its one use.
extractAgentNonce(data) ==
    IF data = Null THEN 0
    ELSE IF Len(data) >= 3 /\ data[1] = "init_job_with_payment"
    THEN ParseInt16[data[3]]
    ELSE 0

\* A number that is neither undefined nor 0.
NumTruthy(n) == n # NoTime /\ n # 0

\* The instruction names x with x.startsWith('MultiESDTNFTTransfer').
TransferPrefixed == {"MultiESDTNFTTransfer", "MultiESDTNFTTransferX"}

\* data?.startsWith('MultiESDTNFTTransfer')
isEsdt(payload) ==
    payload.data # Null /\ payload.data[1] \in TransferPrefixed

BigIntOfUndefined == <<"Cannot convert undefined to a BigInt">>

\* 2. Static Checks (Time)
TemporalGate(payload, now) ==
    IF NumTruthy(payload.validAfter) /\ now < payload.validAfter
    THEN <<"Transaction not yet valid">>
    ELSE IF NumTruthy(payload.validBefore) /\ now > payload.validBefore
    THEN <<"Transaction expired">>
    ELSE NoError

\* 3. Signature Verification
SignatureGate(payload) ==
    IF UserVerify(payload.sender, computeBytesForSigning(VerifyTx(payload)),
                  HexToBytes[payload.signature])
    THEN NoError
    ELSE <<"Invalid signature">>

verifyESDTNoTokenCheck(payload, requirements) ==
    IF ~isEsdt(payload) THEN <<"Not an ESDT transfer">>
    ELSE IF Len(payload.data) < 6 THEN <<"Invalid MultiESDTNFTTransfer data">>
    ELSE IF AddressFromHex[payload.data[2]] # requirements.payTo
    THEN <<"ESDT receiver mismatch">>
    ELSE IF requirements.amount = None THEN BigIntOfUndefined
    ELSE IF BigIntFromHex[payload.data[6]] < BigInt[requirements.amount]
    THEN <<"Insufficient ESDT amount">>
    ELSE NoError

verifyESDT(payload, requirements) ==
    IF ~isEsdt(payload) THEN <<"Not an ESDT transfer">>
    ELSE IF Len(payload.data) < 6 THEN <<"Invalid MultiESDTNFTTransfer data">>
    ELSE IF AddressFromHex[payload.data[2]] # requirements.payTo
    THEN <<"ESDT receiver mismatch">>
    ELSE IF HexToText[payload.data[4]] # requirements.asset
    THEN <<"ESDT token mismatch">>
    ELSE IF requirements.amount = None THEN BigIntOfUndefined
    ELSE IF BigIntFromHex[payload.data[6]] < BigInt[requirements.amount]
    THEN <<"Insufficient ESDT amount">>
    ELSE NoError

\* 4. Requirements Match
RequirementsGate(payload, requirements) ==
    IF ~isEsdt(payload) /\ payload.receiver # requirements.payTo
    THEN <<"Receiver mismatch">>
    ELSE IF requirements.asset = "EGLD"
    THEN IF requirements.amount = None THEN BigIntOfUndefined
         ELSE IF BigInt[payload.value] < BigInt[requirements.amount]
         THEN <<"Insufficient amount">>
         ELSE NoError
    ELSE verifyESDT(payload, requirements)

\* The transaction simulate() sends: no options, and the relayer co-signature
\* only when a relayer is named, a manager is passed, a signer resolves and
\* its sign() resolves (signed); any failure there is caught and logged.
VerifySimTx(payload, rm, signed) ==
    [nonce |-> payload.nonce, value |-> BigInt[payload.value],
     receiver |-> payload.receiver, sender |-> payload.sender,
     gasPrice |-> payload.gasPrice, gasLimit |-> payload.gasLimit,
     data |-> payload.data, chainID |-> payload.chainID,
     version |-> payload.version, options |-> 0,
     signature |-> HexToBytes[payload.signature],
     relayer |-> payload.relayer,
     relayerSignature |->
        IF Truthy(payload.relayer) /\ rm # Null
           /\ getSignerForUser(rm, payload.sender).ok
           /\ signed
        THEN getSignerForUser(rm, payload.sender).signer
        ELSE None]

GateOrderSignatureFirst == <<"signature", "temporal", "requirements", "simulation">>

\* The order of the statements of verify.
GateOrder == <<"temporal", "signature", "requirements", "simulation">>

After(gate) ==
    LET k == CHOOSE n \in 1..Len(GateOrder) : GateOrder[n] = gate
    IN  IF k < Len(GateOrder) THEN GateOrder[k + 1] ELSE "return"

\* verify holds no reference to the store, the settler or the broadcast.
VerifyFrameSavesRecord ==
    /\ store' = JsonSave(store, PendingRecord(BasePayload)).store
    /\ UNCHANGED <<cfg, calls, ledger, ncalls, app>>
VerifyFrame == UNCHANGED <<cfg, store, calls, ledger, ncalls, app>>

\* throw new Error(message)
VerifyThrows(v, message) == vcall' = [v EXCEPT !.pc = "done", !.error = message]

\* The gate passed: on to the next statement, or return { isValid, payer }.
VerifyPasses(v, gate) ==
    IF After(gate) = "return"
    THEN vcall' = [v EXCEPT !.pc = "done",
                     !.result = [isValid |-> TRUE, payer |-> v.payload.sender]]
    ELSE vcall' = [v EXCEPT !.pc = After(gate)]

\* verify is called: requirement resolution up to its registry query.
VerifyStart(payload, requirements, provider, blockchainService) ==
    LET v == [VIdle EXCEPT !.payload = payload, !.requirements = requirements,
                           !.resolved = requirements, !.provider = provider,
                           !.relayerManager = cfg.relayerManager,
                           !.blockchainService = blockchainService]
    IN  /\ vcall.pc = "idle"
        /\ IF /\ blockchainService
              /\ Truthy(extractJobId(payload.data))
              /\ ~Truthy(requirements.amount)
              /\ extractAgentNonce(payload.data) # 0
           THEN vcall' = [v EXCEPT !.pc = "resolving", !.priceRequests = 1]
           ELSE vcall' = [v EXCEPT !.pc = GateOrder[1]]
        /\ VerifyFrame

\* The registry answers with a price, or the query rejects (logged only).
ResolveReturn ==
    /\ vcall.pc = "resolving"
    /\ \E price \in PriceAnswers :
          vcall' = [vcall EXCEPT !.pc = GateOrder[1],
                       !.resolved = IF price = "throw" THEN @
                                    ELSE [@ EXCEPT !.amount = price,
                                                   !.asset = "EGLD"]]
    /\ VerifyFrame

VerifyTemporal ==
    /\ vcall.pc = "temporal"
    /\ \E now \in 0..MaxNow :
          LET v == [vcall EXCEPT !.now = now, !.log = Append(@, "temporal")]
          IN  IF TemporalGate(v.payload, now) # NoError
              THEN VerifyThrows(v, TemporalGate(v.payload, now))
              ELSE VerifyPasses(v, "temporal")
    /\ VerifyFrame

VerifySignature ==
    /\ vcall.pc = "signature"
    /\ LET v == [vcall EXCEPT !.log = Append(@, "signature")]
       IN  IF SignatureGate(v.payload) # NoError
           THEN VerifyThrows(v, SignatureGate(v.payload))
           ELSE VerifyPasses(v, "signature")
    /\ VerifyFrame

VerifyMatch ==
    /\ vcall.pc = "requirements"
    /\ LET v == [vcall EXCEPT !.log = Append(@, "requirements")]
       IN  IF RequirementsGate(v.payload, v.resolved) # NoError
           THEN VerifyThrows(v, RequirementsGate(v.payload, v.resolved))
           ELSE VerifyPasses(v, "requirements")
    /\ VerifyFrame

\* What the ledger gateway answers to verify's simulation request.
SimMalformed == [somethingElse |-> "true"]
SimCrossShard ==
    [result |-> [receiverShard |-> [status |-> "success"],
                 senderShard |-> [status |-> "success"]]]
VerifySimAnswers == SimAnswers \cup {SimMalformed, SimCrossShard}

\* 5. Simulation: the request is sent if a provider was passed and the
\* simulation is not switched off.
VerifySimulate ==
    /\ vcall.pc = "simulation"
    /\ IF vcall.provider /\ ~VerifierSkipsSimulation(cfg.SKIP_SIMULATION)
       THEN \E signed \in BOOLEAN :
            vcall' = [vcall EXCEPT !.pc = "simulating",
                        !.log = Append(@, "simulation"),
                        !.tx = VerifySimTx(vcall.payload, vcall.relayerManager, signed),
                        !.simRequests = @ + 1]
       ELSE VerifyPasses(vcall, "simulation")
    /\ VerifyFrame

VerifySimulateReturn ==
    /\ vcall.pc = "simulating"
    /\ \E answer \in VerifySimAnswers :
          LET v == [vcall EXCEPT !.answer = answer]
          IN  IF "throw" \in DOMAIN answer
              THEN VerifyThrows(v, <<answer["throw"]>>)
              ELSE IF ~parseSimulationResult(answer).success
              THEN VerifyThrows(v, <<"Simulation failed: ",
                                     parseSimulationResult(answer).errorMessage>>)
              ELSE VerifyPasses(v, "simulation")
    /\ VerifyFrame

VerifyNext ==
    \/ /\ vcall.pc = "idle"
       /\ \E payload \in VerifyPayloads, requirements \in VerifyRequirements,
             provider \in BOOLEAN, blockchainService \in BOOLEAN :
             VerifyStart(payload, requirements, provider, blockchainService)
    \/ ResolveReturn
    \/ VerifyTemporal
    \/ VerifySignature
    \/ VerifyMatch
    \/ VerifySimulate
    \/ VerifySimulateReturn

\* The records an earlier run left in the store's file: none, or the
\* completed settlement of an intent.
StoredBefore ==
    LET record == [PendingRecord(EsdtIntent) EXCEPT
                     !.status = "completed", !.txHash = TxHash(1)]
    IN  { <<>>, (record.id :> record) }

\* The service is up, its store loaded, and no call has been made yet.
VerifyInit ==
    /\ cfg \in Configs
    /\ store \in StoredBefore
    /\ calls = [p \in Slots |-> IdleCall]
    /\ ledger = [issued |-> [i \in Ids |-> 0], accepted |-> [i \in Ids |-> 0],
                 hashes |-> 0, simulated |-> 0]
    /\ ncalls = 0
    /\ vcall = VIdle
    /\ app = AppIdle

VerifySpec == VerifyInit /\ [][VerifyNext]_vars

(***************************************************************************)
(* The two entry points side by side: a behaviour observes either one      *)
(* Verifier.verify call or the Settler.settle calls of a deployment.       *)
(***************************************************************************)
EitherNext ==
    \/ ncalls = 0 /\ VerifyNext
    \/ vcall.pc = "idle" /\ Next

EitherSpec == Init /\ [][EitherNext]_vars

(***************************************************************************)
(* POST /settle: SettleRequestSchema.parse, Verifier.verify(payload,       *)
(* requirements, provider), settler.settle(payload), and the response.     *)
(* app holds the response once it is sent.                                 *)
(***************************************************************************)
RequestIds == { calculateId(pl) : pl \in VerifyPayloads }

SchemaError == <<"ZodError">>

\* res.json(result) / res.status(400).json({ error: error.message })
Response(status, body) == [op |-> "POST /settle", status |-> status, body |-> body]

\* The request arrives: the schema rejects the body, or verify is called
\* with the provider and neither relayer manager nor registry service.
SettleRequest(payload, requirements, parsed) ==
    /\ vcall.pc = "idle"
    /\ app.op = "idle"
    /\ IF parsed
       THEN /\ vcall' = [VIdle EXCEPT !.pc = GateOrder[1], !.payload = payload,
                            !.requirements = requirements,
                            !.resolved = requirements, !.provider = TRUE]
            /\ app' = app
       ELSE /\ app' = Response(400, SchemaError)
            /\ vcall' = vcall
    /\ UNCHANGED <<cfg, store, calls, ledger, ncalls>>

\* verify has returned, whatever it returned: settler.settle(payload) is called.
SettleRequestSettleUnverified ==
    /\ vcall.pc = "done"
    /\ ncalls = 0
    /\ SettleStart(1, vcall.payload)
\* verify has returned without throwing: settler.settle(payload) is called.
SettleRequestSettle ==
    /\ vcall.pc = "done"
    /\ vcall.error = NoError
    /\ ncalls = 0
    /\ SettleStart(1, vcall.payload)

\* The handler answers: the result of settle, or the message of what was
\* thrown by verify or by settle.
SettleRequestRespond ==
    /\ app.op = "idle"
    /\ \/ /\ vcall.pc = "done"
          /\ vcall.error # NoError
          /\ app' = Response(400, vcall.error)
       \/ /\ ncalls = 1
          /\ calls[1].pc = "done"
          /\ app' = IF calls[1].error # NoError
                    THEN Response(400, calls[1].error)
                    ELSE Response(200, calls[1].result)
    /\ UNCHANGED <<cfg, store, calls, ledger, ncalls, vcall>>

RequestInit ==
    /\ cfg \in Configs
    /\ store \in StoredBefore
    /\ calls = [p \in Slots |-> IdleCall]
    /\ ledger = [issued |-> [i \in RequestIds |-> 0],
                 accepted |-> [i \in RequestIds |-> 0],
                 hashes |-> 0, simulated |-> 0]
    /\ ncalls = 0
    /\ vcall = VIdle
    /\ app = AppIdle

RequestNext ==
    \/ /\ vcall.pc = "idle"
       /\ \E payload \in VerifyPayloads, requirements \in VerifyRequirements,
             parsed \in BOOLEAN :
             SettleRequest(payload, requirements, parsed)
    \/ VerifyTemporal
    \/ VerifySignature
    \/ VerifyMatch
    \/ VerifySimulate
    \/ VerifySimulateReturn
    \/ SettleRequestSettle
    \/ \E p \in Slots : SettleCheck(p)
    \/ \E p \in Slots : SettleTry(p)
    \/ \E p \in Slots : SimulateReturn(p)
    \/ \E p \in Slots : BroadcastReturn(p)
    \/ \E p \in Slots : UpdateCompleted(p)
    \/ \E p \in Slots : UpdateFailed(p)
    \/ SettleRequestRespond

RequestSpec == RequestInit /\ [][RequestNext]_vars

\* The handler is an async function that express runs to its end: a step
\* that can be taken is eventually taken.
RequestFairSpec == RequestSpec /\ WF_vars(RequestNext)

(***************************************************************************)
(* Settler.settle on a SQLite store whose UPDATE after the broadcast may   *)
(* be rejected (database locked, disk error).  JsonSettlementStorage       *)
(* changes the record in memory and only logs a failed file write, so its  *)
(* updateStatus never rejects.                                             *)
(***************************************************************************)
StoreBusy == <<"SQLITE_BUSY: database is locked">>

\* SQLite: updateStatus(id, 'completed', txHash) rejects; the rejection is
\* inside the try block and reaches the catch block of settle.
UpdateCompletedRejects(p) ==
    LET c == calls[p]
    IN  /\ c.pc = "sent"
        /\ calls' = [calls EXCEPT ![p] = [c EXCEPT !.pc = "caught", !.error = StoreBusy]]
        /\ UNCHANGED <<cfg, store, ledger, ncalls, vcall, app>>

StoreFaultNext ==
    \/ Next
    \/ \E p \in Slots : UpdateCompletedRejects(p)

StoreFaultSpec == Init /\ [][StoreFaultNext]_vars

(***************************************************************************)
(* Settler.settle called for one signed intent whose signature is          *)
(* presented in lower-case and in upper-case hex.                          *)
(***************************************************************************)
LetterCasePayloads ==
    { [BasePayload EXCEPT !.signature = s, !.relayer = r, !.version = 2] :
        s \in {"ab", "AB"}, r \in {None, RelayerA} }

LetterCaseInit ==
    /\ cfg \in Configs
    /\ store = <<>>
    /\ calls = [p \in Slots |-> IdleCall]
    /\ ledger = LET ids == { calculateId(pl) : pl \in LetterCasePayloads }
                IN  [issued |-> [i \in ids |-> 0], accepted |-> [i \in ids |-> 0],
                     hashes |-> 0, simulated |-> 0]
    /\ ncalls = 0
    /\ vcall = VIdle
    /\ app = AppIdle

LetterCaseNext ==
    \/ \E p \in Slots, payload \in LetterCasePayloads : SettleStart(p, payload)
    \/ \E p \in Slots : SettleCheck(p)
    \/ \E p \in Slots : SettleTry(p)
    \/ \E p \in Slots : SimulateReturn(p)
    \/ \E p \in Slots : BroadcastReturn(p)
    \/ \E p \in Slots : UpdateCompleted(p)
    \/ \E p \in Slots : UpdateFailed(p)

LetterCaseSpec == LetterCaseInit /\ [][LetterCaseNext]_vars

(***************************************************************************)
(* getShard and getSignerForUser applied to two addresses of arbitrary     *)
(* public keys: app holds the keys and what each call returned.            *)
(***************************************************************************)
\* The relayer managers the service is started with here: wallets for shards
\* 0 and 1 with a single key to fall back on, or one wallet and no fallback.
ShardManagers ==
    { NewRelayerManager(<<RelayerA, RelayerB>>, RelayerS),
      NewRelayerManager(<<RelayerA>>, None) }

ShardInit ==
    /\ cfg \in [storage : {"json"}, relayerManager : ShardManagers,
                SKIP_SIMULATION : {None}]
    /\ store = <<>>
    /\ calls = [p \in Slots |-> IdleCall]
    /\ ledger = [issued |-> [i \in Ids |-> 0], accepted |-> [i \in Ids |-> 0],
                 hashes |-> 0, simulated |-> 0]
    /\ ncalls = 0
    /\ vcall = VIdle
    /\ app = AppIdle

\* getSignerForUser is called for the address of key a, then for that of key b.
ShardOfTwo(a, b) ==
    /\ app.op = "idle"
    /\ app' = [op |-> "getShard", a |-> a, b |-> b,
               shardA |-> Shard(a), shardB |-> Shard(b),
               signerA |-> SignerOfShard(cfg.relayerManager, Shard(a)),
               signerB |-> SignerOfShard(cfg.relayerManager, Shard(b))]
    /\ UNCHANGED <<cfg, store, calls, ledger, ncalls, vcall>>

ShardNext ==
    /\ app.op = "idle"
    /\ \E lastA \in 0..255, lastB \in 0..255 :
          ShardOfTwo(PublicKey(0, lastA), PublicKey(1, lastB))

ShardSpec == ShardInit /\ [][ShardNext]_vars

(***************************************************************************)
(* The settlement table of SqliteSettlementStorage under the operations of *)
(* ISettlementStorage: app holds the table, the operation applied last and *)
(* what it returned.                                                       *)
(***************************************************************************)
\* DELETE FROM settlements WHERE validBefore < ?  (NULL compares to nothing)
SqliteDeleteExpired(st, now) ==
    [i \in { j \in DOMAIN st :
                ~(st[j].validBefore # NoTime /\ st[j].validBefore < now) } |-> st[i]]

\* SELECT * FROM settlements WHERE isRead = 0, each row with isRead: false
SqliteGetUnreadAnyStatus(st) ==
    { [st[i] EXCEPT !.isRead = FALSE] : i \in { j \in DOMAIN st : ~st[j].isRead } }
\* SELECT * FROM settlements WHERE status = 'completed' AND isRead = 0,
\* each row with isRead: false
SqliteGetUnread(st) ==
    { [st[i] EXCEPT !.isRead = FALSE] :
        i \in { j \in DOMAIN st : st[j].status = "completed" /\ ~st[j].isRead } }

\* markAsRead that marks every completed row, whatever ids it is given.
SqliteMarkAllRead(st, ids) ==
    IF ids = {} THEN st
    ELSE [i \in DOMAIN st |->
            IF st[i].status = "completed" THEN [st[i] EXCEPT !.isRead = TRUE] ELSE st[i]]

\* UPDATE settlements SET isRead = 1 WHERE id IN (ids); nothing for no ids.
SqliteMarkAsRead(st, ids) ==
    IF ids = {} THEN st
    ELSE [i \in DOMAIN st |->
            IF i \in ids THEN [st[i] EXCEPT !.isRead = TRUE] ELSE st[i]]

\* The records settle saves: pending, with the intent's validBefore.
SavedRecords ==
    { PendingRecord([BasePayload EXCEPT !.signature = sig, !.validBefore = vb]) :
        sig \in Signatures, vb \in {NoTime, 0, 1} }

\* The writes of updateStatus as settle issues them.
StatusWrites == { <<"completed", TxHash(1)>>, <<"failed", NoHash>> }

TableOf(a) == IF a.op = "idle" THEN <<>> ELSE a.table
OpsOf(a) == IF a.op = "idle" THEN 0 ELSE a.n

Applied(op, arg, table, out) ==
    /\ OpsOf(app) < MaxOps
    /\ app' = [op |-> op, arg |-> arg, table |-> table, out |-> out,
               n |-> OpsOf(app) + 1]
    /\ UNCHANGED <<cfg, store, calls, ledger, ncalls, vcall>>

\* The tables a database file may hold when init() opens it: nothing, or
\* the completed settlements of an earlier run.
StoredTables ==
    { <<>>,
      [i \in { r.id : r \in SavedRecords } |->
          [(CHOOSE r \in SavedRecords : r.id = i /\ r.validBefore = NoTime)
              EXCEPT !.status = "completed", !.txHash = TxHash(1)]] }

\* init(): open the database file, CREATE TABLE IF NOT EXISTS.
TableOpen(table) ==
    /\ app.op = "idle"
    /\ app' = [op |-> "init", arg |-> Null, table |-> table, out |-> Null, n |-> 0]
    /\ UNCHANGED <<cfg, store, calls, ledger, ncalls, vcall>>

TableSave(record) ==
    Applied("save", record, SqliteSave(TableOf(app), record).store,
            SqliteSave(TableOf(app), record).ok)

TableUpdateStatus(id, write) ==
    Applied("updateStatus", <<id, write>>,
            StorageUpdateStatus(TableOf(app), id, write[1], write[2]), Null)

TableDeleteExpired(now) ==
    Applied("deleteExpired", now, SqliteDeleteExpired(TableOf(app), now), Null)

TableGetUnread ==
    Applied("getUnread", Null, TableOf(app), SqliteGetUnread(TableOf(app)))

TableMarkAsRead(ids) ==
    Applied("markAsRead", ids, SqliteMarkAsRead(TableOf(app), ids), Null)

TableNext ==
    \/ \E table \in StoredTables : TableOpen(table)
    \/ \E record \in SavedRecords : TableSave(record)
    \/ \E id \in Ids, write \in StatusWrites : TableUpdateStatus(id, write)
    \/ \E now \in 0..MaxNow : TableDeleteExpired(now)
    \/ TableGetUnread
    \/ \E ids \in SUBSET Ids : TableMarkAsRead(ids)

TableSpec == Init /\ [][TableNext]_vars

(***************************************************************************)
(* JsonSettlementStorage and SqliteSettlementStorage side by side: the     *)
(* same call is made on both, app holds the records of each and what each  *)
(* call returned ("throws" for a rejected call).                           *)
(***************************************************************************)
\* JsonSettlementStorage.deleteExpired: record.validBefore && validBefore < now
JsonDeleteExpired(st, now) ==
    [i \in { j \in DOMAIN st :
                ~(NumTruthy(st[j].validBefore) /\ st[j].validBefore < now) } |-> st[i]]

JsonOf(a) == IF a.op = "idle" THEN <<>> ELSE a.json
SqliteOf(a) == IF a.op = "idle" THEN <<>> ELSE a.sqlite

Called(op, arg, json, sqlite, outJson, outSqlite) ==
    /\ OpsOf(app) < MaxOps
    /\ app' = [op |-> op, arg |-> arg, json |-> json, sqlite |-> sqlite,
               outJson |-> outJson, outSqlite |-> outSqlite,
               n |-> OpsOf(app) + 1]
    /\ UNCHANGED <<cfg, store, calls, ledger, ncalls, vcall>>

Resolves(ok) == IF ok THEN "resolves" ELSE "throws"

BothSave(record) ==
    Called("save", record,
           JsonSave(JsonOf(app), record).store,
           SqliteSave(SqliteOf(app), record).store,
           Resolves(JsonSave(JsonOf(app), record).ok),
           Resolves(SqliteSave(SqliteOf(app), record).ok))

BothGet(id) ==
    Called("get", id, JsonOf(app), SqliteOf(app),
           StorageGet(JsonOf(app), id), StorageGet(SqliteOf(app), id))

BothUpdateStatus(id, write) ==
    Called("updateStatus", <<id, write>>,
           StorageUpdateStatus(JsonOf(app), id, write[1], write[2]),
           StorageUpdateStatus(SqliteOf(app), id, write[1], write[2]),
           "resolves", "resolves")

BothDeleteExpired(now) ==
    Called("deleteExpired", now,
           JsonDeleteExpired(JsonOf(app), now),
           SqliteDeleteExpired(SqliteOf(app), now),
           "resolves", "resolves")

StoresNext ==
    \/ \E record \in SavedRecords : BothSave(record)
    \/ \E id \in Ids : BothGet(id)
    \/ \E id \in Ids, write \in StatusWrites : BothUpdateStatus(id, write)
    \/ \E now \in 0..MaxNow : BothDeleteExpired(now)

StoresSpec == Init /\ [][StoresNext]_vars

(***************************************************************************)
(* Settler.settle beside the periodic sweep of CleanupService, for intents *)
(* with and without an expiry.  app holds the clock value of the last      *)
(* sweep; the clock never runs backwards.                                  *)
(***************************************************************************)
SweepPayloads ==
    { [BasePayload EXCEPT !.signature = s, !.validBefore = vb,
                          !.relayer = r, !.version = 2] :
        s \in Signatures, vb \in {NoTime, 0, 1}, r \in {None, RelayerA} }

\* The timer callback: now = Math.floor(Date.now() / 1000), deleteExpired(now).
Sweep(now) ==
    /\ IF app.op = "idle" THEN TRUE ELSE app.now <= now
    /\ app' = [op |-> "deleteExpired", now |-> now]
    /\ store' = IF cfg.storage = "json"
                THEN JsonDeleteExpired(store, now)
                ELSE SqliteDeleteExpired(store, now)
    /\ UNCHANGED <<cfg, calls, ledger, ncalls, vcall>>

SweepNext ==
    \/ \E p \in Slots, payload \in SweepPayloads : SettleStart(p, payload)
    \/ \E p \in Slots : SettleCheck(p)
    \/ \E p \in Slots : SettleTry(p)
    \/ \E p \in Slots : SimulateReturn(p)
    \/ \E p \in Slots : BroadcastReturn(p)
    \/ \E p \in Slots : UpdateCompleted(p)
    \/ \E p \in Slots : UpdateFailed(p)
    \/ \E now \in 0..MaxNow : Sweep(now)

SweepSpec == Init /\ [][SweepNext]_vars

(***************************************************************************)
(* GET /events beside Settler.settle.  app holds the poll: where the       *)
(* handler stands, the rows its getUnread returned, and the events every   *)
(* response so far has carried.                                            *)
(***************************************************************************)
EventPayloads ==
    { [BasePayload EXCEPT !.signature = s, !.relayer = r, !.version = 2] :
        s \in Signatures, r \in {None, RelayerA} }

\* unread.map(r => ({ amount, token, meta: { jobId, payload, sender, txHash } }))
Events(unread) ==
    { [amount |-> OrElse(r.amount, "0"), token |-> OrElse(r.token, "EGLD"),
       meta |-> [jobId |-> r.id, payload |-> r.id, sender |-> r.payer,
                 txHash |-> r.txHash]] : r \in unread }

\* No request has arrived yet.
EventsInit ==
    /\ cfg \in Configs
    /\ store = <<>>
    /\ calls = [p \in Slots |-> IdleCall]
    /\ ledger = [issued |-> [i \in Ids |-> 0], accepted |-> [i \in Ids |-> 0],
                 hashes |-> 0, simulated |-> 0]
    /\ ncalls = 0
    /\ vcall = VIdle
    /\ app = [op |-> "GET /events", pc |-> "idle", consume |-> FALSE,
              unread |-> {}, status |-> 0, returned |-> {}, polls |-> 0]

\* The request arrives and storage.getUnread() is read.  JsonSettlementStorage
\* has no getUnread: the call throws and the handler answers 500.
PollStart(consume) ==
    /\ app.pc = "idle"
    /\ app.polls < MaxPolls
    /\ app' = IF cfg.storage = "json"
              THEN [app EXCEPT !.consume = consume, !.unread = {},
                               !.status = 500, !.polls = @ + 1]
              ELSE [app EXCEPT !.pc = "listed", !.consume = consume,
                               !.unread = SqliteGetUnread(store),
                               !.status = 0, !.polls = @ + 1]
    /\ UNCHANGED <<cfg, store, calls, ledger, ncalls, vcall>>

\* The events are built; with ?unread=true and a non-empty list the UPDATE of
\* markAsRead runs, otherwise the response is sent at once.
PollMark ==
    /\ app.pc = "listed"
    /\ IF app.consume /\ app.unread # {}
       THEN /\ store' = SqliteMarkAsRead(store, { r.id : r \in app.unread })
            /\ app' = [app EXCEPT !.pc = "marked"]
       ELSE /\ store' = store
            /\ app' = [app EXCEPT !.pc = "idle", !.status = 200,
                                  !.returned = @ \cup Events(app.unread)]
    /\ UNCHANGED <<cfg, calls, ledger, ncalls, vcall>>

\* res.json(events) after markAsRead has resolved.
PollRespond ==
    /\ app.pc = "marked"
    /\ app' = [app EXCEPT !.pc = "idle", !.status = 200,
                          !.returned = @ \cup Events(app.unread)]
    /\ UNCHANGED <<cfg, store, calls, ledger, ncalls, vcall>>

EventsNext ==
    \/ \E p \in Slots, payload \in EventPayloads : SettleStart(p, payload)
    \/ \E p \in Slots : SettleCheck(p)
    \/ \E p \in Slots : SettleTry(p)
    \/ \E p \in Slots : SimulateReturn(p)
    \/ \E p \in Slots : BroadcastReturn(p)
    \/ \E p \in Slots : UpdateCompleted(p)
    \/ \E p \in Slots : UpdateFailed(p)
    \/ \E consume \in BOOLEAN : PollStart(consume)
    \/ PollMark
    \/ PollRespond

EventsSpec == EventsInit /\ [][EventsNext]_vars

(***************************************************************************)
(* parseSimulationResult applied to the responses with at most MaxFields   *)
(* leaf properties drawn from the paths the interpreter reads.             *)
(***************************************************************************)
ResponsePaths ==
    {<<"status", "status">>, <<"raw", "status">>,
     <<"raw", "receiverShard", "status">>, <<"raw", "senderShard", "status">>,
     <<"result", "status">>,
     <<"result", "receiverShard", "status">>, <<"result", "senderShard", "status">>,
     <<"execution", "result">>, <<"execution", "message">>,
     <<"result", "execution", "result">>, <<"result", "execution", "message">>,
     <<"error">>, <<"raw", "error">>, <<"result", "error">>}

ResponseValues == {"success", "Success", "fail", ""}

\* The leaves of a response: a value for each populated path.
ResponseLeaves ==
    UNION { [S -> ResponseValues] :
              S \in { T \in SUBSET ResponsePaths : Cardinality(T) <= MaxFields } }

IsPrefix(prefix, path) ==
    /\ Len(prefix) < Len(path)
    /\ \A n \in 1..Len(prefix) : prefix[n] = path[n]

\* The JSON object with the given leaves, from the property path `prefix` down.
RECURSIVE ResponseObject(_, _)
ResponseObject(leaves, prefix) ==
    [k \in { path[Len(prefix) + 1] :
               path \in { q \in DOMAIN leaves : IsPrefix(prefix, q) } } |->
        IF Append(prefix, k) \in DOMAIN leaves
        THEN leaves[Append(prefix, k)]
        ELSE ResponseObject(leaves, Append(prefix, k))]

\* const { success, errorMessage } = parseSimulationResult(simulationResult)
ParseResponse(leaves) ==
    /\ app.op = "idle"
    /\ app' = [op |-> "parseSimulationResult", leaves |-> leaves,
               arg |-> ResponseObject(leaves, <<>>),
               out |-> parseSimulationResult(ResponseObject(leaves, <<>>))]
    /\ UNCHANGED <<cfg, store, calls, ledger, ncalls, vcall>>

\* The gateway returned null / undefined.
ParseMissing ==
    /\ app.op = "idle"
    /\ app' = [op |-> "parseSimulationResult", leaves |-> <<>>,
               arg |-> JsNull, out |-> parseSimulationResult(JsNull)]
    /\ UNCHANGED <<cfg, store, calls, ledger, ncalls, vcall>>

ParseNext ==
    \/ \E leaves \in ResponseLeaves : ParseResponse(leaves)
    \/ ParseMissing

ParseSpec == Init /\ [][ParseNext]_vars

(***************************************************************************)
(* getSignerForUser applied to the relayer managers built from a wallets   *)
(* directory of at most MaxWallets key files and an optional single key.   *)
(***************************************************************************)
Wallets == {RelayerA, RelayerB, RelayerS}
Payers == {Alice, Bob, Carol}

\* readdirSync(walletsDir): the key files, each holding its own signer.
WalletDirs ==
    UNION { { files \in [1..n -> Wallets] :
                \A i, j \in 1..n : files[i] = files[j] => i = j } :
            n \in 0..MaxWallets }

\* new RelayerManager(walletsDir, singlePemPath).getSignerForUser(user)
SelectSigner(walletFiles, singlePem, user) ==
    /\ app.op = "idle"
    /\ app' = [op |-> "getSignerForUser",
               rm |-> NewRelayerManager(walletFiles, singlePem),
               user |-> user,
               out |-> getSignerForUser(NewRelayerManager(walletFiles, singlePem), user)]
    /\ UNCHANGED <<cfg, store, calls, ledger, ncalls, vcall>>

SelectorNext ==
    \E walletFiles \in WalletDirs, singlePem \in Wallets \cup {None}, user \in Payers :
        SelectSigner(walletFiles, singlePem, user)

SelectorSpec == Init /\ [][SelectorNext]_vars

(***************************************************************************)
(* Settlement claims                                                       *)
(***************************************************************************)
StatusOf(i) == IF i \in DOMAIN store THEN store[i].status ELSE "absent"

\* The invocation in slot p has saved its pending record and has not returned.
PastSave(p) == calls[p].pc \in {"saved", "simulating", "sending", "sent", "caught"}

\* In this step the invocation in slot p returns to its caller.
Returns(p) == calls[p].pc # "done" /\ calls'[p].pc = "done"

\* C1: for every settlement identifier the broadcast succeeds at most once,
\* whatever the interleaving of the settle calls that carry its signature.
C1_BroadcastSucceedsAtMostOnce ==
    \A i \in Ids : ledger.accepted[i] <= 1

\* C2: a settle call that finds the record of its identifier completed returns
\* success with exactly the stored transaction hash, and it has sent no
\* broadcast, no simulation and no write to the store.
C2_CompletedShortCircuit ==
    \A p \in Slots :
        LET c == calls[p]
        IN  (c.pc = "done" /\ c.existing # Null /\ c.existing.status = "completed")
            => /\ c.result = [success |-> TRUE, txHash |-> c.existing.txHash]
               /\ c.existing.txHash \in { TxHash(n) : n \in 1..ledger.hashes }
               /\ c.error = NoError
               /\ c.bcasts = 0 /\ c.sims = 0 /\ c.saves = 0 /\ c.updates = 0

C2_Witness ==
    \E p \in Slots :
        /\ calls[p].pc = "done"
        /\ calls[p].existing # Null
        /\ calls[p].existing.status = "completed"
        /\ calls[p].result # NoResult

\* C3: a settle call that finds the record of its identifier pending fails with
\* 'Settlement already in progress' and has sent no broadcast, no simulation
\* and no write to the store.
C3_PendingRejected ==
    \A p \in Slots :
        LET c == calls[p]
        IN  (c.pc = "done" /\ c.existing # Null /\ c.existing.status = "pending")
            => /\ c.error = AlreadyInProgress
               /\ c.result = NoResult
               /\ c.bcasts = 0 /\ c.sims = 0 /\ c.saves = 0 /\ c.updates = 0

C3_Witness ==
    \E p \in Slots :
        /\ calls[p].pc = "done"
        /\ calls[p].existing # Null
        /\ calls[p].existing.status = "pending"
        /\ calls[p].error = AlreadyInProgress

\* C4: once the record of an identifier is completed or failed, no step of any
\* settle call changes its status (in particular it is never pending again).
C4_TerminalIsFinal ==
    [][\A i \in DOMAIN store :
          store[i].status \in {"completed", "failed"}
          => (i \in DOMAIN store' /\ store'[i].status = store[i].status)]_vars

\* C5: a settle call that saved its pending record and then failed (relayer
\* resolution, signing, simulation, broadcast) returns 'Settlement failed:
\* <reason>' and has written failed, the record being failed when it returns;
\* and a record is pending only while a settle call that saved it is running.
C5_FailedCallReturns(p) ==
    (Returns(p) /\ calls'[p].saves = 1 /\ calls'[p].result = NoResult)
    => /\ calls'[p].id \in DOMAIN store'
       /\ store'[calls'[p].id].status = "failed"
       /\ store'[calls'[p].id].txHash = NoHash

C5_NoStuckPending ==
    /\ \A p \in Slots :
          LET c == calls[p]
          IN  (c.pc = "done" /\ c.saves = 1 /\ c.result = NoResult)
              => /\ Len(c.error) >= 2
                 /\ c.error = SettlementFailed(Tail(c.error))
                 /\ c.updates = 1
    /\ \A i \in DOMAIN store :
          store[i].status = "pending"
          => \E p \in Slots : PastSave(p) /\ calls[p].id = i

C5_FailureMarksFailed ==
    /\ []C5_NoStuckPending
    /\ [][\A p \in Slots : C5_FailedCallReturns(p)]_vars

C5_Witness ==
    \E p \in Slots :
        /\ calls[p].pc = "done"
        /\ calls[p].saves = 1
        /\ calls[p].error = SettlementFailed(<<"network error">>)
        /\ StatusOf(calls[p].id) = "failed"

\* C6: a settle call that found no record, names no fee-payer and whose
\* broadcast succeeds sees the record pending from its save until its own
\* completed write, returns success with the hash the broadcast returned, and
\* the record ends completed with that hash.
FreshDirect(c) == c.pc # "idle" /\ c.existing = Null /\ c.payload.relayer = None

C6_AbsentPendingCompleted ==
    \A p \in Slots :
        LET c == calls[p]
        IN  FreshDirect(c)
            => /\ c.pc \in {"saved", "sending", "sent"}
                  => (StatusOf(c.id) = "pending" /\ store[c.id].txHash = NoHash)
               /\ (c.pc = "done" /\ c.txHash # NoHash)
                  => /\ c.result = [success |-> TRUE, txHash |-> c.txHash]
                     /\ StatusOf(c.id) = "completed"
                     /\ store[c.id].txHash = c.txHash

\* C6 holds on the SQLite store, whose save rejects the second insert.
C6_OnSqlite == cfg.storage = "sqlite" => C6_AbsentPendingCompleted

\* C7: an invocation sends its broadcast only after its save has resolved (a
\* rejected save means no broadcast and no simulation), makes no terminal
\* status write while its broadcast is outstanding or before its try block has
\* run, makes at most one, and writes completed only with a hash the
\* broadcast returned.
C7_SaveBroadcastWriteOrder ==
    \A p \in Slots :
        LET c == calls[p]
        IN  /\ (c.bcasts > 0 \/ c.sims > 0) => c.saves = 1
            /\ (c.pc = "done" /\ c.error = SaveRejected)
               => (c.saves = 0 /\ c.bcasts = 0 /\ c.sims = 0 /\ c.updates = 0)
            /\ c.pc \in {"got", "saved", "simulating", "sending"} => c.updates = 0
            /\ c.updates <= 1 /\ c.bcasts <= 1
            /\ (c.updates = 1 /\ c.result # NoResult)
               => (c.bcasts = 1 /\ c.txHash # NoHash /\ c.result.txHash = c.txHash)

C7_Witness ==
    /\ \E p \in Slots :
          calls[p].pc = "done" /\ calls[p].bcasts = 1 /\ calls[p].updates = 1
    /\ \E p \in Slots :
          calls[p].pc = "done" /\ calls[p].error = SaveRejected

MismatchError(expected) ==
    SettlementFailed(<<"Invalid relayer address. Expected ", expected,
                       " for sender's shard.">>)

Resolved(c) == getSignerForUser(cfg.relayerManager, c.payload.sender)

C9_MismatchedCall(c) ==
    /\ c.pc = "done" /\ c.path = "relayed" /\ c.payload.version >= 2
    /\ Resolved(c).ok /\ c.payload.relayer # Resolved(c).signer

C9_MismatchState ==
    \A p \in Slots :
        LET c == calls[p]
        IN  /\ C9_MismatchedCall(c)
               => /\ c.error = MismatchError(Resolved(c).signer)
                  /\ c.result = NoResult /\ c.txHash = NoHash
                  /\ c.bcasts = 0 /\ c.sims = 0
            /\ (c.pc = "done" /\ c.path = "relayed" /\ Resolved(c).ok
                /\ c.payload.relayer = Resolved(c).signer)
               => c.error # MismatchError(Resolved(c).signer)

C10_Simulates(v) == v.provider /\ cfg.SKIP_SIMULATION \notin {"true", "1"}

C10_FirstFailingGateWins ==
    LET v == vcall
        temporal == TemporalGate(v.payload, v.now)
        signature == SignatureGate(v.payload)
        requirements == RequirementsGate(v.payload, v.resolved)
        earlier == temporal = NoError /\ signature = NoError
                   /\ requirements = NoError
    IN  /\ v.simRequests > 0
           => /\ earlier
              /\ v.simRequests = 1
              /\ v.log = <<"temporal", "signature", "requirements", "simulation">>
        /\ v.pc = "done"
           => /\ temporal # NoError
                 => (v.error = temporal /\ v.log = <<"temporal">>)
              /\ (temporal = NoError /\ signature # NoError)
                 => (v.error = signature /\ v.log = <<"temporal", "signature">>)
              /\ (temporal = NoError /\ signature = NoError
                  /\ requirements # NoError)
                 => /\ v.error = requirements
                    /\ v.log = <<"temporal", "signature", "requirements">>
              /\ ~earlier => (v.simRequests = 0 /\ v.result = NoResult)
              /\ (earlier /\ ~C10_Simulates(v))
                 => (v.simRequests = 0 /\ v.error = NoError)
              /\ (earlier /\ C10_Simulates(v)) => v.simRequests = 1
              /\ v.error = NoError
                 <=> v.result = [isValid |-> TRUE, payer |-> v.payload.sender]
              /\ v.result # NoResult => earlier

C10_Witness ==
    /\ vcall.pc = "done"
    /\ C10_Simulates(vcall)
    /\ TemporalGate(vcall.payload, vcall.now) = NoError
    /\ SignatureGate(vcall.payload) # NoError
    /\ RequirementsGate(vcall.payload, vcall.resolved) # NoError
    /\ vcall.error = <<"Invalid signature">>
    /\ vcall.simRequests = 0

\* C11: once verify has read the clock, it fails with 'Transaction not yet
\* valid' exactly when validAfter is present and now < validAfter, otherwise
\* with 'Transaction expired' exactly when validBefore is present (any value,
\* 0 included) and now > validBefore; in every other case, the bounds
\* now = validAfter and now = validBefore included, the temporal gate passes.
C11_NotYetValid(v) ==
    v.payload.validAfter # NoTime /\ v.now < v.payload.validAfter

C11_Expired(v) ==
    /\ ~C11_NotYetValid(v)
    /\ v.payload.validBefore # NoTime /\ v.now > v.payload.validBefore

C11_TemporalWindow ==
    vcall.now # NoTime
    => /\ vcall.error = <<"Transaction not yet valid">> <=> C11_NotYetValid(vcall)
       /\ vcall.error = <<"Transaction expired">> <=> C11_Expired(vcall)

\* C12: an intent that is not, field for field (fee-payer included), one the
\* sender signed with the supplied signature bytes never makes verify return
\* valid or send a simulation request, and once the temporal gate has passed
\* the call ends with 'Invalid signature', whatever the requirement; an intent
\* that is one the sender signed does not fail with that error.
C12_SignedFields ==
    {"nonce", "value", "receiver", "sender", "gasPrice", "gasLimit", "data",
     "chainID", "version", "options", "relayer"}

C12_Genuine(payload) ==
    \E i \in SignedIntents :
        /\ HexToBytes[i.signature] = HexToBytes[payload.signature]
        /\ \A f \in C12_SignedFields : i[f] = payload[f]

C13_Case(v) ==
    /\ v.pc = "done"
    /\ ~v.provider
    /\ v.requirements.asset = "EGLD" /\ v.requirements.amount # None
    /\ C12_Genuine(v.payload)
    /\ ~C11_NotYetValid(v) /\ ~C11_Expired(v)

C13_Satisfied(v) ==
    /\ BigInt[v.payload.value] >= BigInt[v.requirements.amount]
    /\ v.payload.receiver = v.requirements.payTo

C13_NativeIffAmountAndReceiver ==
    C13_Case(vcall)
    => (vcall.result = [isValid |-> TRUE, payer |-> vcall.payload.sender]
        <=> C13_Satisfied(vcall))

\* C13 holds for the intents whose data does not start with the transfer opcode.
C13_WithoutTransferData ==
    C13_Case(vcall) /\ ~isEsdt(vcall.payload) => C13_NativeIffAmountAndReceiver

\* C14: for a token requirement and a validly signed token-transfer intent of
\* at least 6 fields inside its validity window, verify fails with 'ESDT
\* receiver mismatch' when the decoded receiver is not the recipient,
\* otherwise with 'ESDT token mismatch' when the decoded token identifier is
\* not the asset (compared case-sensitively), otherwise with 'Insufficient
\* ESDT amount' when the decoded amount is below the required one; it returns
\* valid only when all three hold, and does so whenever no simulation is made.
C14_Case(v) ==
    /\ v.pc = "done"
    /\ v.requirements.asset # "EGLD" /\ v.requirements.amount # None
    /\ C12_Genuine(v.payload)
    /\ ~C11_NotYetValid(v) /\ ~C11_Expired(v)
    /\ v.payload.data # Null
    /\ v.payload.data[1] \in TransferPrefixed
    /\ Len(v.payload.data) >= 6

C14_TokenIffReceiverTokenAmount ==
    LET v == vcall
        receiverOk == AddressFromHex[v.payload.data[2]] = v.requirements.payTo
        tokenOk == HexToText[v.payload.data[4]] = v.requirements.asset
        amountOk == BigIntFromHex[v.payload.data[6]]
                        >= BigInt[v.requirements.amount]
    IN  C14_Case(v)
        => /\ ~receiverOk => v.error = <<"ESDT receiver mismatch">>
           /\ (receiverOk /\ ~tokenOk) => v.error = <<"ESDT token mismatch">>
           /\ (receiverOk /\ tokenOk /\ ~amountOk)
              => v.error = <<"Insufficient ESDT amount">>
           /\ v.result # NoResult => (receiverOk /\ tokenOk /\ amountOk)
           /\ (receiverOk /\ tokenOk /\ amountOk)
              => /\ v.log[Len(v.log)] # "requirements"
                    \/ v.result = [isValid |-> TRUE, payer |-> v.payload.sender]
                 /\ ~C10_Simulates(v) => v.result # NoResult

C14_Witness ==
    /\ C14_Case(vcall)
    /\ vcall.requirements = [payTo |-> Carol, amount |-> "5000", asset |-> "TEST-ABCD"]
    /\ HexToText[vcall.payload.data[4]] = "TEST-abcd"
    /\ vcall.error = <<"ESDT token mismatch">>

\* C15: when verify reaches token-transfer parsing for a token requirement, it
\* fails with 'Not an ESDT transfer' whenever the instruction name is not
\* MultiESDTNFTTransfer, and otherwise with 'Invalid MultiESDTNFTTransfer
\* data' whenever the instruction has fewer than 6 fields.
C15_ParsingReached(v) ==
    /\ v.pc = "done"
    /\ Len(v.log) >= 3 /\ v.log[3] = "requirements"
    /\ v.resolved.asset # "EGLD"
    /\ v.error # <<"Receiver mismatch">>

C15_IsTransfer(data) == data # Null /\ data[1] = "MultiESDTNFTTransfer"

C15_OpcodeThenFieldCount ==
    C15_ParsingReached(vcall)
    => /\ ~C15_IsTransfer(vcall.payload.data)
          => vcall.error = <<"Not an ESDT transfer">>
       /\ (C15_IsTransfer(vcall.payload.data) /\ Len(vcall.payload.data) < 6)
          => vcall.error = <<"Invalid MultiESDTNFTTransfer data">>

\* C15 holds for the instruction names that do not merely begin with the opcode.
C15_ExactOrUnrelatedName ==
    (C15_ParsingReached(vcall) /\ vcall.payload.data # Null
     /\ vcall.payload.data[1] = "MultiESDTNFTTransferX")
    \/ C15_OpcodeThenFieldCount

\* C16 as stated: when a ledger gateway is supplied, a finished verify call
\* whose earlier gates passed has sent exactly one simulation request, has
\* returned valid only for a response that means success, and has failed for
\* every other response and for a rejected request.
C16_EarlierGatesPassed(v) ==
    /\ v.pc = "done"
    /\ TemporalGate(v.payload, v.now) = NoError
    /\ SignatureGate(v.payload) = NoError
    /\ RequirementsGate(v.payload, v.resolved) = NoError

C16_Success == {SimSuccess, SimCrossShard}

Parsed == app.op = "parseSimulationResult"

\* The value of a leaf property of the response, None when it is absent.
Leaf(path) == IF path \in DOMAIN app.leaves THEN app.leaves[path] ELSE None

\* C17 as stated: the interpreter returns success if and only if at least one
\* of status.status, raw.status, raw.{receiverShard,senderShard}.status,
\* result.status, result.{receiverShard,senderShard}.status is exactly 'success'.
C17_Indicators ==
    {<<"status", "status">>, <<"raw", "status">>,
     <<"raw", "receiverShard", "status">>, <<"raw", "senderShard", "status">>,
     <<"result", "status">>,
     <<"result", "receiverShard", "status">>, <<"result", "senderShard", "status">>}

C17_Execution ==
    IF \E path \in DOMAIN app.leaves : path[1] = "execution"
    THEN <<"execution">>
    ELSE <<"result", "execution">>

C17_ShardsSucceed(under) ==
    /\ Leaf(<<under, "receiverShard", "status">>) = "success"
    /\ Leaf(<<under, "senderShard", "status">>) \in {None, "", "success"}

C18_Candidates ==
    <<Append(C17_Execution, "message"), <<"error">>, <<"raw", "error">>,
      <<"result", "error">>, <<"status", "status">>, <<"raw", "status">>>>

C18_Available == { n \in 1..Len(C18_Candidates) : Leaf(C18_Candidates[n]) \notin {None, ""} }

C18_Expected ==
    IF C18_Available = {} THEN "Unknown error"
    ELSE Leaf(C18_Candidates[CHOOSE n \in C18_Available :
                                \A m \in C18_Available : n <= m])

C18_FailureHasMessage ==
    Parsed
    => IF app.out.success THEN app.out.errorMessage = ""
       ELSE /\ app.out.errorMessage \notin {"", None}
            /\ app.arg = JsNull => app.out.errorMessage = "Empty simulation result"
            /\ app.arg # JsNull => app.out.errorMessage = C18_Expected

C18_Witness ==
    /\ Parsed
    /\ app.arg = [execution |-> [message |-> ""], raw |-> [status |-> "fail"]]
    /\ app.out = [success |-> FALSE, errorMessage |-> "fail"]

(***************************************************************************)
(* Relayer-selector claims                                                 *)
(***************************************************************************)
Selected == app.op = "getSignerForUser"
PayerShard == getShard(app.user)
PerShard == app.rm.signers

\* C19: the selector resolves in this order: with at least one per-shard
\* signer configured the result is the signer registered for the payer's
\* shard; the single signer is the result only when no per-shard signer is
\* configured at all; the call fails only when neither a per-shard signer nor
\* the single signer exists; and the result is never a signer registered for
\* a shard other than the payer's.
C19_ShardSignerOrSingleOrFail ==
    Selected =>
        /\ DOMAIN PerShard # {} =>
              /\ app.out.ok
              /\ PayerShard \in DOMAIN PerShard
              /\ app.out.signer = PerShard[PayerShard]
        /\ DOMAIN PerShard = {} /\ app.rm.singleSigner # None =>
              app.out = [ok |-> TRUE, signer |-> app.rm.singleSigner]
        /\ ~app.out.ok => DOMAIN PerShard = {} /\ app.rm.singleSigner = None
        /\ app.out.ok =>
              \A shard \in DOMAIN PerShard \ {PayerShard} :
                  PerShard[shard] # app.out.signer

\* What holds of the selector: the signer of the payer's shard when one is
\* registered, else the single signer when there is one, else the failure.
C19_ShardSignerElseSingleElseFail ==
    Selected =>
        app.out = IF PayerShard \in DOMAIN PerShard
                  THEN [ok |-> TRUE, signer |-> PerShard[PayerShard]]
                  ELSE IF app.rm.singleSigner # None
                  THEN [ok |-> TRUE, signer |-> app.rm.singleSigner]
                  ELSE [ok |-> FALSE, signer |-> None]

(***************************************************************************)
(* Frame claims                                                            *)
(***************************************************************************)
\* C20: verify never creates, updates or deletes a settlement record and
\* never broadcasts: whatever the input and the outcome, every step of the
\* call leaves the settlement store and the ledger as they were, and the
\* simulation request is the only request the call sends out.
C20_OnlySimulationRequest ==
    [][/\ store' = store
       /\ ledger' = ledger
       /\ vcall'.priceRequests = 0]_vars

\* Every step of verify leaves the store, the ledger and the settle calls as
\* they were; what the call sends out is at most one registry price query
\* and at most one simulation request.
C20_StoreAndLedgerUntouched ==
    /\ [](vcall.priceRequests \in {0, 1} /\ vcall.simRequests \in {0, 1})
    /\ [][store' = store /\ ledger' = ledger /\ calls' = calls]_vars

\* A call that sent both requests and returned valid, beside a stored record.
C20_Witness ==
    /\ vcall.pc = "done"
    /\ vcall.result # NoResult
    /\ vcall.priceRequests = 1
    /\ vcall.simRequests = 1
    /\ store \in StoredBefore \ {<<>>}

(***************************************************************************)
(* Request claims                                                          *)
(***************************************************************************)
VerifyFailed == vcall.pc = "done" /\ vcall.error # NoError
NothingBroadcast ==
    /\ ledger.hashes = 0
    /\ ledger.simulated = 0
    /\ \A i \in RequestIds : ledger.issued[i] = 0 /\ ledger.accepted[i] = 0

\* C21: the settle request verifies before it settles: when verification of
\* the (intent, requirement) pair fails the settler is never invoked, so no
\* step creates or changes a record and nothing is broadcast, and the caller
\* gets the error message; a record is written only for the intent that
\* passed verification in the same request.
C21_VerifyBeforeSettle ==
    /\ [](VerifyFailed =>
            /\ ncalls = 0
            /\ \A p \in Slots : calls[p] = IdleCall
            /\ store \in StoredBefore
            /\ NothingBroadcast
            /\ (app.op # "idle" => app = Response(400, vcall.error)))
    /\ [](ncalls > 0 =>
            /\ vcall.pc = "done"
            /\ vcall.result = [isValid |-> TRUE, payer |-> vcall.payload.sender]
            /\ calls[1].payload = vcall.payload)
    /\ [][store' # store =>
              /\ vcall.pc = "done" /\ vcall.error = NoError
              /\ DOMAIN store' \subseteq DOMAIN store \cup {calculateId(vcall.payload)}
              /\ \A i \in DOMAIN store \ {calculateId(vcall.payload)} :
                    store'[i] = store[i]]_vars
    /\ (VerifyFailed ~> (app.op = "POST /settle" /\ app.status = 400))

\* A request whose intent fails verification although a completed record of
\* the same identifier is stored: answered with the error, the store as it was.
C21_Witness ==
    /\ VerifyFailed
    /\ calculateId(vcall.payload) \in DOMAIN store
    /\ app = Response(400, vcall.error)

(***************************************************************************)
(* Relayer co-signature claims                                             *)
(***************************************************************************)
\* simulate() entered its co-signing block for the transaction it sent.
CosignAttempted(v) ==
    v.tx # Null /\ Truthy(v.payload.relayer) /\ v.relayerManager # Null

\* What a failure to resolve the relayer signer or to sign is thrown as.
CosignErrors ==
    {<<"signing failed">>} \cup { <<"No relayer configured for user ", u>> : u \in Payers }

CosignFailed(c) ==
    c.error \in CosignErrors \cup { SettlementFailed(e) : e \in CosignErrors }

\* verify never fails with a co-signing failure, and a dry-run whose
\* co-signing failed is sent all the same and decides the outcome.
C22_DryRun ==
    /\ vcall.error \notin CosignErrors
    /\ (CosignAttempted(vcall) /\ vcall.tx.relayerSignature = None) =>
          /\ vcall.simRequests = 1
          /\ (vcall.pc = "done" =>
                (vcall.error = NoError <=> parseSimulationResult(vcall.answer).success))

\* A settle call whose co-signing failed is on the relayed path, has sent
\* nothing to the ledger and has no result; what a relayed call does send
\* carries the co-signature.
C22_Settlement ==
    \A p \in Slots :
        /\ CosignFailed(calls[p]) =>
              /\ calls[p].path = "relayed"
              /\ calls[p].bcasts = 0
              /\ calls[p].sims = 0
              /\ calls[p].tx = Null
              /\ calls[p].result = NoResult
        /\ (calls[p].path = "relayed" /\ calls[p].tx # Null) =>
              calls[p].tx.relayerSignature # None

\* The step that ends such a call throws 'Settlement failed: ...' and leaves
\* the record failed.
C22_EndsFailed ==
    \A p \in Slots :
        (CosignFailed(calls'[p]) /\ calls'[p].pc = "done" /\ calls[p].pc # "done") =>
            /\ calls'[p].error \in { SettlementFailed(e) : e \in CosignErrors }
            /\ store'[calls'[p].id].status = "failed"
            /\ ledger' = ledger

\* C22: a failure to obtain or apply the relayer co-signature is swallowed by
\* verify's dry-run, whose simulation request is still sent, without the
\* co-signature, and decides the outcome; in the relayed settlement it is
\* fatal: the call broadcasts nothing, fails, and leaves its record failed.
C22_SwallowedInDryRunFatalInSettlement ==
    [](C22_DryRun /\ C22_Settlement) /\ [][C22_EndsFailed]_vars

\* verify's dry-run went out without the co-signature although a signer for
\* the sender resolves (sign rejected), and the call returned valid.
C22_Witness ==
    /\ vcall.pc = "done"
    /\ vcall.result # NoResult
    /\ CosignAttempted(vcall)
    /\ getSignerForUser(vcall.relayerManager, vcall.payload.sender).ok
    /\ vcall.tx.relayerSignature = None
    /\ vcall.simRequests = 1

(***************************************************************************)
(* Independence of identifiers                                             *)
(***************************************************************************)
\* The slot whose invocation takes the step.
Stepping(p) == calls'[p] # calls[p]

\* A step changes no record but the one of the stepping call's identifier.
C23_OnlyOwnRecord ==
    \A i \in Ids :
        StorageGet(store', i) # StorageGet(store, i) =>
            \E p \in Slots : Stepping(p) /\ calls'[p].id = i

\* The step that ends a call which wrote its outcome leaves the record of
\* its identifier with that outcome: what the call would leave if run alone.
C23_OwnOutcome ==
    \A p \in Slots :
        (Stepping(p) /\ calls'[p].pc = "done" /\ calls'[p].updates = 1) =>
            /\ calls'[p].id \in DOMAIN store'
            /\ store'[calls'[p].id].status =
                  IF calls'[p].error = NoError THEN "completed" ELSE "failed"
            /\ store'[calls'[p].id].txHash = calls'[p].txHash
            /\ calls'[p].error = NoError =>
                  calls'[p].result = [success |-> TRUE, txHash |-> calls'[p].txHash]

\* C23: a settle call for one identifier never creates, modifies or deletes
\* the record of another identifier; under any interleaving of settle calls
\* each step writes only the record of the call that takes it, and a call
\* ends with its own outcome in its record, as if it ran alone.
C23_IdentifiersIndependent ==
    [][C23_OnlyOwnRecord /\ C23_OwnOutcome]_vars

\* Two calls for different identifiers that overlapped (the second slot is
\* taken only while the first is busy), one completed and one failed after
\* its broadcast, each record with its own call's outcome.
C23_Witness ==
    /\ \A p \in Slots : calls[p].pc = "done" /\ calls[p].bcasts = 1
    /\ calls[1].id # calls[2].id
    /\ calls[2].error # NoError
    /\ store[calls[1].id].status = "completed"
    /\ store[calls[2].id].status = "failed"
    /\ calls[1].existing = Null /\ calls[2].existing = Null

(***************************************************************************)
(* Store claims                                                            *)
(***************************************************************************)
\* getUnread returned exactly the completed rows not yet read.
C24_UnreadAreCompletedUnread ==
    app.op = "getUnread" =>
        /\ { r.id : r \in app.out } =
             { i \in DOMAIN app.table :
                  app.table[i].status = "completed" /\ ~app.table[i].isRead }
        /\ \A r \in app.out : r = app.table[r.id]

\* markAsRead(ids) sets the flag of the listed rows and nothing else.
C24_MarksExactlyListed ==
    app'.op = "markAsRead" =>
        /\ DOMAIN app'.table = DOMAIN TableOf(app)
        /\ \A i \in DOMAIN app'.table :
              app'.table[i] = IF i \in app'.arg
                              THEN [TableOf(app)[i] EXCEPT !.isRead = TRUE]
                              ELSE TableOf(app)[i]

\* A row that is read stays read while it is in the table, and getUnread
\* changes nothing.
C24_ReadStaysRead ==
    /\ \A i \in DOMAIN TableOf(app) \cap DOMAIN app'.table :
          TableOf(app)[i].isRead => app'.table[i].isRead
    /\ app'.op = "getUnread" => app'.table = TableOf(app)

\* C24: getUnread returns exactly the records that are completed and not
\* read, never a pending or failed one; markAsRead(ids) sets the read flag of
\* exactly the listed records and leaves their status, hash and every other
\* record as they were; a record marked read is never returned again.
C24_UnreadAndMarkAsRead ==
    /\ [](C24_UnreadAreCompletedUnread)
    /\ [][C24_MarksExactlyListed /\ C24_ReadStaysRead]_vars

\* Two completed rows, one of them marked read: getUnread returns the other.
C24_Witness ==
    /\ app.op = "getUnread"
    /\ \E i, j \in DOMAIN app.table :
          /\ i # j
          /\ app.table[i].status = "completed" /\ app.table[i].isRead
          /\ app.table[j].status = "completed" /\ ~app.table[j].isRead
    /\ Cardinality(app.out) = 1

\* C25: a second save with an identifier already stored has the same outcome
\* on the file-backed store and on the SQLite store (both reject or both
\* overwrite), so that stores holding the same records hold the same records
\* after the call and settle behaves the same on a retry.
C25_SaveConsistentAcrossStores ==
    [][(app'.op = "save" /\ JsonOf(app) = SqliteOf(app)) =>
          /\ app'.outJson = app'.outSqlite
          /\ app'.json = app'.sqlite]_vars

\* What holds: the first save of an identifier has one outcome on both.
C25_FirstSaveConsistent ==
    [][(/\ app'.op = "save"
        /\ JsonOf(app) = SqliteOf(app)
        /\ app'.arg.id \notin DOMAIN JsonOf(app)) =>
          /\ app'.outJson = "resolves" /\ app'.outSqlite = "resolves"
          /\ app'.json = app'.sqlite]_vars

\* The records deleteExpired(now) is to remove from st.
C26_Expired(st, now) ==
    { i \in DOMAIN st : st[i].validBefore # NoTime /\ st[i].validBefore < now }

C26_Purged(before, after, now) ==
    /\ DOMAIN after = DOMAIN before \ C26_Expired(before, now)
    /\ \A i \in DOMAIN after : after[i] = before[i]

\* C26: deleteExpired(now) removes exactly the records whose validBefore is
\* present and strictly less than now, whatever their status, and leaves
\* every other record unchanged, on either store.
C26_PurgesExactlyElapsed ==
    [][app'.op = "deleteExpired" =>
          /\ C26_Purged(JsonOf(app), app'.json, app'.arg)
          /\ C26_Purged(SqliteOf(app), app'.sqlite, app'.arg)]_vars

\* What holds: the SQLite store purges exactly those records, and the
\* file-backed store never purges a record that has not elapsed.
C26_SqliteExactJsonNeverEarly ==
    [][app'.op = "deleteExpired" =>
          /\ C26_Purged(SqliteOf(app), app'.sqlite, app'.arg)
          /\ DOMAIN JsonOf(app) \ DOMAIN app'.json \subseteq
                C26_Expired(JsonOf(app), app'.arg)
          /\ \A i \in DOMAIN app'.json :
                i \in DOMAIN JsonOf(app) /\ app'.json[i] = JsonOf(app)[i]]_vars

(***************************************************************************)
(* Broadcast-transaction claims                                            *)
(***************************************************************************)
\* The settle call of the request has built the transaction it broadcasts.
Broadcasting(c) == c.tx # Null /\ c.bcasts = 1

\* The transaction carries the intent's signature and, field by field, what
\* verify checked that signature against.
SameAsVerified(tx, payload) ==
    /\ tx.signature = HexToBytes[payload.signature]
    /\ computeBytesForSigning(tx) = computeBytesForSigning(VerifyTx(payload))

\* C27: on the direct path the transaction handed to broadcast carries the
\* intent's signature and the same value for every signed field (nonce,
\* value, receiver, sender, gas price, gas limit, data, chain id, version,
\* options, fee-payer) as the transaction whose signature verify checked.
C27_DirectBroadcastsWhatWasSigned ==
    \A p \in Slots :
        (Broadcasting(calls[p]) /\ calls[p].path = "direct") =>
            SameAsVerified(calls[p].tx, vcall.payload)

\* What holds: the same for the intents that designate no fee-payer.
C27_WithoutFeePayer ==
    \A p \in Slots :
        (/\ Broadcasting(calls[p])
         /\ calls[p].path = "direct"
         /\ ~Truthy(vcall.payload.relayer)) =>
            /\ SameAsVerified(calls[p].tx, vcall.payload)
            /\ calls[p].tx.relayerSignature = None

SimulationRefused(c) ==
    /\ c.answer # Null
    /\ \/ "throw" \in DOMAIN c.answer
       \/ ~parseSimulationResult(c.answer).success

\* The operational override as sendRelayedV3 reads it.
OverrideSet == cfg.SKIP_SIMULATION = "true"

\* Without the override a relayed broadcast follows one simulation that was
\* interpreted as success, and a refused simulation means no broadcast and
\* a failed call; with the override nothing is simulated and the
\* transaction goes straight to broadcast.
C29_Gate ==
    \A p \in Slots :
        LET c == calls[p]
        IN  c.path = "relayed" =>
              /\ (~OverrideSet /\ c.bcasts = 1) =>
                    /\ c.sims = 1
                    /\ c.answer # Null
                    /\ ~SimulationRefused(c)
              /\ SimulationRefused(c) =>
                    /\ ~OverrideSet
                    /\ c.bcasts = 0
                    /\ c.result = NoResult
                    /\ c.error # NoError
              /\ OverrideSet =>
                    /\ c.sims = 0
                    /\ c.answer = Null
                    /\ (c.tx # Null => c.bcasts = 1)

\* The step that ends a call whose simulation was refused leaves the record
\* failed and sends nothing.
C29_RefusedEndsFailed ==
    \A p \in Slots :
        (Stepping(p) /\ calls'[p].pc = "done" /\ SimulationRefused(calls'[p])) =>
            /\ store'[calls'[p].id].status = "failed"
            /\ ledger' = ledger

NotRelayable(payload) == payload.version < 2 \/ ~Truthy(payload.relayer)

\* A relayed call for such an intent has built and co-signed no transaction,
\* has sent neither simulation nor broadcast, and has no result.
C30_NothingSent ==
    \A p \in Slots :
        (calls[p].path = "relayed" /\ NotRelayable(calls[p].payload)) =>
            /\ calls[p].tx = Null
            /\ calls[p].sims = 0
            /\ calls[p].bcasts = 0
            /\ calls[p].result = NoResult
            /\ calls[p].error # NoError

\* The step that ends it throws and leaves the record failed.
C30_EndsFailed ==
    \A p \in Slots :
        (/\ Stepping(p)
         /\ calls'[p].pc = "done"
         /\ calls'[p].path = "relayed"
         /\ NotRelayable(calls'[p].payload)) =>
            /\ calls'[p].error \in
                  { SettlementFailed(<<"Relayed V3 requires transaction version >= 2.">>),
                    SettlementFailed(<<"Relayed V3 requires payload.relayer to be set by the sender before signing.">>) }
            /\ store'[calls'[p].id].status = "failed"
            /\ ledger' = ledger

ReturnedHashes == { TxHash(n) : n \in 1..ledger.hashes }

\* A completed record holds a returned hash, any other record holds none.
C31_HashIffCompleted ==
    \A i \in DOMAIN store :
        IF store[i].status = "completed"
        THEN store[i].txHash \in ReturnedHashes
        ELSE store[i].txHash = NoHash

\* A hash reaches an invocation only as the answer to its own broadcast.
C31_HashFromOwnBroadcast ==
    \A p \in Slots :
        (calls'[p].txHash # calls[p].txHash /\ calls'[p].txHash # NoHash) =>
            /\ calls[p].pc = "sending"
            /\ calls'[p].id = calls[p].id
            /\ ledger'.accepted[calls[p].id] = ledger.accepted[calls[p].id] + 1
            /\ calls'[p].txHash = TxHash(ledger'.hashes)
            /\ ledger'.hashes = ledger.hashes + 1

\* A record is written completed only by an invocation for its identifier,
\* with the hash that invocation's broadcast returned.
C31_CompletedWrite ==
    \A i \in DOMAIN store' :
        (/\ store'[i].status = "completed"
         /\ (i \notin DOMAIN store \/ store[i] # store'[i])) =>
            \E p \in Slots :
                /\ Stepping(p)
                /\ calls'[p].id = i
                /\ calls'[p].txHash # NoHash
                /\ calls'[p].txHash = store'[i].txHash

\* C31: in every reachable store state a completed record carries the hash
\* returned by the broadcast made for its identifier, and a pending or failed
\* record carries no transaction hash.
C31_CompletedCarriesBroadcastHash ==
    [](C31_HashIffCompleted)
        /\ [][C31_HashFromOwnBroadcast /\ C31_CompletedWrite]_vars

\* One record completed with the hash its broadcast returned, another failed.
C31_Witness ==
    \E i, j \in DOMAIN store :
        /\ store[i].status = "completed"
        /\ store[i].txHash = TxHash(1)
        /\ ledger.accepted[i] = 1
        /\ store[j].status = "failed"
        /\ store[j].txHash = NoHash
        /\ ledger.issued[j] = 1

(***************************************************************************)
(* No internal retry                                                       *)
(***************************************************************************)
\* What an invocation has asked of the ledger gateway so far.
C32_AtMostOnce ==
    /\ vcall.simRequests <= 1
    /\ \A p \in Slots : calls[p].bcasts <= 1 /\ calls[p].sims <= 1

\* A settle invocation whose broadcast was rejected has thrown, and a verify
\* invocation whose simulation was rejected or refused has thrown.
C32_Reported ==
    /\ \A p \in Slots :
          (calls[p].pc = "done" /\ calls[p].bcasts = 1 /\ calls[p].txHash = NoHash) =>
              (calls[p].error = SettlementFailed(<<"network error">>)
                   /\ calls[p].result = NoResult)
    /\ (/\ vcall.pc = "done"
        /\ vcall.simRequests = 1
        /\ ("throw" \in DOMAIN vcall.answer
               \/ ~parseSimulationResult(vcall.answer).success)) =>
           (vcall.error # NoError /\ vcall.result = NoResult)

\* The step in which the rejection arrives sends nothing.
C32_NoResend ==
    /\ \A p \in Slots :
          (calls[p].pc = "sending" /\ Stepping(p) /\ calls'[p].txHash = NoHash) =>
              (/\ calls'[p].pc \in {"done", "caught"}
               /\ calls'[p].bcasts = calls[p].bcasts
               /\ ledger' = ledger)
    /\ (vcall.pc = "simulating" /\ vcall' # vcall) =>
           (/\ vcall'.pc = "done"
            /\ vcall'.simRequests = vcall.simRequests
            /\ ledger' = ledger)

\* C32: one settle invocation calls broadcast at most once and one verify
\* invocation calls simulate at most once; a failed broadcast or simulation
\* is not retried, it is reported to the caller.
C32_NoInternalRetry ==
    [](C32_AtMostOnce /\ C32_Reported) /\ [][C32_NoResend]_vars

\* verify simulated once and passed; settle broadcast once, the broadcast was
\* rejected and the call threw.
C32_Witness ==
    /\ vcall.pc = "done"
    /\ vcall.simRequests = 1
    /\ vcall.error = NoError
    /\ calls[1].pc = "done"
    /\ calls[1].bcasts = 1
    /\ ledger.issued[calls[1].id] = 1
    /\ calls[1].error = SettlementFailed(<<"network error">>)

\* verify simulated once, the simulation was refused and the call threw.
C32_SimulationRefused ==
    /\ vcall.pc = "done"
    /\ vcall.simRequests = 1
    /\ "throw" \notin DOMAIN vcall.answer
    /\ ~parseSimulationResult(vcall.answer).success
    /\ vcall.error # NoError

(***************************************************************************)
(* Shard claims                                                            *)
(***************************************************************************)
\* The shard the claim gives to a key whose last byte is b.
C33_Expected(b) == IF b % 4 \in {0, 1, 2} THEN b % 4 ELSE b % 2

\* C33: the shard index depends only on the last byte b of the public key:
\* b & 3 when that is 0, 1 or 2 and b & 1 otherwise, so always one of 0, 1, 2;
\* two addresses with the same last byte get the same shard and relayer.
C33_ShardFromLastByte ==
    app.op = "getShard" =>
        /\ app.shardA = C33_Expected(app.a[32])
        /\ app.shardB = C33_Expected(app.b[32])
        /\ app.shardA \in {0, 1, 2}
        /\ app.shardB \in {0, 1, 2}
        /\ app.a[32] = app.b[32] =>
              (app.shardA = app.shardB /\ app.signerA = app.signerB)

\* Two different keys ending in the same byte 7 (7 & 3 = 3, folded to 1):
\* both on shard 1 with the relayer registered there.
C33_Witness ==
    /\ app.op = "getShard"
    /\ app.a # app.b
    /\ app.a[32] = 7
    /\ app.b[32] = 7
    /\ app.shardA = 1
    /\ app.shardB = 1
    /\ app.signerA = [ok |-> TRUE, signer |-> RelayerB]
    /\ app.signerB = app.signerA

(***************************************************************************)
(* Shard-level statuses                                                    *)
(***************************************************************************)
\* The response has no indicator other than shard-level statuses.
C34_OnlyShardStatuses ==
    /\ Parsed
    /\ app.arg # JsNull
    /\ \A path \in DOMAIN app.leaves :
          path \notin {<<"status", "status">>, <<"raw", "status">>,
                       <<"result", "status">>, <<"execution", "result">>,
                       <<"result", "execution", "result">>}

\* Under raw or under result: receiver shard 'success', sender shard absent
\* or 'success'.
C34_ShardsSucceed(under) ==
    /\ Leaf(<<under, "receiverShard", "status">>) = "success"
    /\ Leaf(<<under, "senderShard", "status">>) \in {None, "success"}

\* C34: for a response whose only indicators are shard-level statuses (under
\* raw or under result) the interpreter returns success if and only if the
\* receiver shard status is exactly 'success' and the sender shard status is
\* absent or exactly 'success'; any other sender status, or a missing or
\* non-success receiver status, yields failure.
C34_ShardStatusesDecide ==
    C34_OnlyShardStatuses =>
        (app.out.success <=> (C34_ShardsSucceed("raw") \/ C34_ShardsSucceed("result")))

\* The same with an empty sender shard status counted as absent.
C34_EmptySenderAsAbsent ==
    C34_OnlyShardStatuses =>
        (app.out.success <=> (C17_ShardsSucceed("raw") \/ C17_ShardsSucceed("result")))

(***************************************************************************)
(* Identifier and signature bytes                                          *)
(***************************************************************************)
\* Two signature strings that decode to the same bytes.
SameBytes(s, t) == HexToBytes[s] = HexToBytes[t]

\* C35: two payloads whose signature strings decode to the same signature
\* bytes get the same settlement identifier and share one settlement record.
C35_SameBytesSameRecord ==
    /\ \A p, q \in Slots :
          (/\ calls[p].payload # Null
           /\ calls[q].payload # Null
           /\ SameBytes(calls[p].payload.signature, calls[q].payload.signature))
          => calls[p].id = calls[q].id
    /\ \A i, j \in DOMAIN store :
          SameBytes(store[i].signature, store[j].signature) => i = j

\* What follows from it on the code: the transaction with one and the same
\* signature bytes is accepted by the ledger gateway under two identifiers.
C35_BroadcastTwice ==
    \E i, j \in DOMAIN store :
        /\ i # j
        /\ SameBytes(store[i].signature, store[j].signature)
        /\ store[i].status = "completed"
        /\ store[j].status = "completed"
        /\ ledger.accepted[i] = 1
        /\ ledger.accepted[j] = 1

(***************************************************************************)
(* Accepted transactions                                                   *)
(***************************************************************************)
\* C36: a record has status failed only if no broadcast for its identifier
\* has returned a transaction hash, also when a store write fails after the
\* broadcast has succeeded.
C36_FailedOnlyIfNothingAccepted ==
    \A i \in DOMAIN store :
        store[i].status = "failed" => ledger.accepted[i] = 0

\* The same on the SQLite store alone, where no two calls broadcast for one
\* identifier.
C36_OnSqlite == cfg.storage = "sqlite" => C36_FailedOnlyIfNothingAccepted

\* A call whose broadcast returned a hash and that threw with its record failed.
C36_AcceptedRecordedFailed ==
    \E p \in Slots :
        /\ cfg.storage = "sqlite"
        /\ calls[p].pc = "done"
        /\ calls[p].txHash # NoHash
        /\ calls[p].error = SettlementFailed(StoreBusy)
        /\ store[calls[p].id].status = "failed"
        /\ ledger.accepted[calls[p].id] = 1

(***************************************************************************)
(* Settlement beside the sweep                                             *)
(***************************************************************************)
\* The invocation in slot p returns success with a hash in this step.
ReturnsHash(p) ==
    /\ Stepping(p)
    /\ calls'[p].pc = "done"
    /\ calls'[p].result # NoResult

\* C37: whenever settle returns success with a hash, the store holds at that
\* moment a completed record for that identifier with that hash, under any
\* interleaving with the periodic deleteExpired sweep.
C37_ReturnedHashIsRecorded ==
    [][\A p \in Slots :
          ReturnsHash(p) =>
              /\ calls'[p].id \in DOMAIN store'
              /\ store'[calls'[p].id].status = "completed"
              /\ store'[calls'[p].id].txHash = calls'[p].result.txHash]_vars

\* A call returned the hash of its accepted broadcast and the store holds no
\* record for its identifier.
C37_OutcomeUnrecorded ==
    \E p \in Slots :
        /\ calls[p].pc = "done"
        /\ calls[p].result # NoResult
        /\ calls[p].txHash # NoHash
        /\ ledger.accepted[calls[p].id] = 1
        /\ calls[p].id \notin DOMAIN store

(***************************************************************************)
(* Purged records and the expiry check of verify                           *)
(***************************************************************************)
\* The validity window of the intent a record was saved for.
C38_Intent(record) ==
    [BasePayload EXCEPT !.signature = record.signature,
                        !.validBefore = record.validBefore]

\* The records this step removes from the store.
C38_Removed == DOMAIN store \ DOMAIN store'

C38_RemovedAreExpired ==
    \A i \in C38_Removed :
        \A now \in app'.now..MaxNow :
            TemporalGate(C38_Intent(store[i]), now) = <<"Transaction expired">>

\* C38: every record removed by deleteExpired(now) belongs to an intent that
\* verify rejects as expired at every time >= now, in both stores, so a purge
\* never lets an intent that was broadcast pass verify and be broadcast again.
C38_PurgedIntentsStayExpired == [][C38_RemovedAreExpired]_vars

\* The same for the file-backed store alone.
C38_OnJson == [][cfg.storage = "json" => C38_RemovedAreExpired]_vars

\* After a sweep an intent whose record was completed is settled a second
\* time, at a time at which the expiry check of verify lets it pass.
C38_BroadcastAgain ==
    \E p \in Slots :
        /\ cfg.storage = "sqlite"
        /\ app.op = "deleteExpired"
        /\ calls[p].pc = "done"
        /\ calls[p].result # NoResult
        /\ ledger.accepted[calls[p].id] = 2
        /\ TemporalGate(calls[p].payload, app.now) = NoError

(***************************************************************************)
(* Events poll                                                             *)
(***************************************************************************)
\* The event a response carries for the record as the store holds it.
EventOf(record) ==
    [amount |-> OrElse(record.amount, "0"), token |-> OrElse(record.token, "EGLD"),
     meta |-> [jobId |-> record.id, payload |-> record.id,
               sender |-> record.payer, txHash |-> record.txHash]]

\* The events of the responses sent, and of the response the poll in flight
\* sends once its markAsRead has resolved.
C39_Returned ==
    app.returned \cup (IF app.pc = "marked" THEN Events(app.unread) ELSE {})

\* A record marked read is completed and its event is in a poll's response.
C39_ReadWereReturned ==
    \A i \in DOMAIN store :
        store[i].isRead =>
            (store[i].status = "completed" /\ EventOf(store[i]) \in C39_Returned)

\* The step that marks a record read is the markAsRead of a consuming poll
\* whose getUnread returned that record.
C39_MarksOwnList ==
    \A i \in DOMAIN store' :
        (i \in DOMAIN store /\ store'[i].isRead /\ ~store[i].isRead) =>
            /\ app.pc = "listed"
            /\ app.consume
            /\ \E r \in app.unread : r.id = i /\ r.txHash = store'[i].txHash

\* getUnread of a poll returns every completed record not yet marked read.
C39_ListsEveryUnread ==
    (app.pc = "idle" /\ app'.pc = "listed") =>
        \A i \in DOMAIN store :
            (store[i].status = "completed" /\ ~store[i].isRead) =>
                \E r \in app'.unread : r.id = i /\ r.txHash = store[i].txHash

\* C39: a consuming events poll marks as read only the records it returned in
\* its own response; a settlement that completes between the poll's getUnread
\* and its markAsRead stays unread and is returned by a later poll, so every
\* completed settlement is returned by a poll before it is marked read.
C39_PollMarksOnlyWhatItReturns ==
    [](C39_ReadWereReturned) /\ [][C39_MarksOwnList /\ C39_ListsEveryUnread]_vars

\* A consuming poll has marked the record it listed; another settlement
\* completed after the poll's getUnread and is still unread.
C39_Witness ==
    /\ app.pc = "marked"
    /\ \E i, j \in DOMAIN store :
          /\ store[i].isRead
          /\ i \in { r.id : r \in app.unread }
          /\ store[j].status = "completed"
          /\ ~store[j].isRead
          /\ j \notin { r.id : r \in app.unread }

\* A later poll has returned the settlement the earlier poll left unread.
C39_LaterPollReturns ==
    /\ app.polls = 2
    /\ app.pc = "marked"
    /\ \A i \in DOMAIN store : store[i].isRead
    /\ Cardinality(DOMAIN store) = 2
    /\ Cardinality(app.returned) = 1
    /\ Cardinality(app.unread) = 1

====
